---- MODULE Spec2Model ----
(***************************************************************************)
(* Model of the language-tutor quiz application:                           *)
(*   - the question endpoint  (src/app/api/questions/route.ts, first       *)
(*     module of the file, lines 1-542): POST, generateWithGroq,           *)
(*     parseQuestionsFromText, shuffle;                                    *)
(*   - the quiz client (src/unnamed/part_001): LanguageTutorApp and its    *)
(*     handlers, normalize, shuffle.                                       *)
(*                                                                         *)
(* Strings that the code trims, normalises or compares character-wise are  *)
(* sequences of one-character strings; tags that the code only compares    *)
(* for equality are TLA+ strings.                                          *)
(***************************************************************************)
EXTENDS Integers, Sequences, FiniteSets, TLC

VARIABLES
    \* ---- normalize / answer judgement on free inputs
    normPc, normAnswer, normCanonical, normIsRight,
    \* ---- the sanitizer on free inputs, followed by the client's own pass
    sanPc, sanText, sanCount, sanResult, sanClient,
    \* ---- the question endpoint: one POST /api/questions
    srvPc,        \* "idle", "http" (a provider call is in flight), "done"
    srvBody,      \* the request body
    apiKey,       \* process.env.GROQ_API_KEY is set
    retryCount,   \* argument retryCount of the running generateWithGroq
    httpCalls,    \* provider calls made for this request (history)
    srvLog,       \* the provider's answers to them, in order (history)
    srvResponse,  \* the HTTP response of POST
    \* ---- the quiz client: the state of LanguageTutorApp
    screen, username, selectedLanguage, selectedLevel, skillBand, questions,
    currentQuestionIndex, score, answers, userAnswer, showResult, isCorrect,
    loading, fetchError, sessionReports,
    fetchPc,      \* "sent" while the fetch of generateQuestions is pending
    fetchBody,    \* the body of the pending request
    \* ---- the chat tutor page: the state of Home
    home,         \* the nine useState values of Home, by their names
    tutorCalls,   \* the callTutor invocations waiting for their fetch
    afterReset    \* the session was reset and Ask tutor not invoked since (history)

normVars == <<normPc, normAnswer, normCanonical, normIsRight>>
sanVars == <<sanPc, sanText, sanCount, sanResult, sanClient>>

srvVars == <<srvPc, srvBody, apiKey, retryCount, httpCalls, srvLog, srvResponse>>

cliVars == <<screen, username, selectedLanguage, selectedLevel, skillBand, questions,
             currentQuestionIndex, score, answers, userAnswer, showResult, isCorrect,
             loading, fetchError, sessionReports, fetchPc, fetchBody>>

tutVars == <<home, tutorCalls, afterReset>>

vars == <<normVars, sanVars, srvVars, cliVars, tutVars>>

(***************************************************************************)
(* Bounds                                                                  *)
(***************************************************************************)
MaxStrLen == 3
\* longest raw "options" array of one item
MaxRawOptions == 4
\* longest raw array of items
MaxItems == 2
\* highest score the model lets one band run reach
MaxScore == 2
\* most turns of one chat the model lets Ask tutor start
MaxTurns == 2

(***************************************************************************)
(* Character-level string functions                                        *)
(***************************************************************************)
\* \s of the regular expressions and the characters trim() removes
Whitespace == {" "}

\* the character class [.,!?;:] of normalize
Punctuation == {".", ",", "!", "?", ";", ":"}

\* String.prototype.toLowerCase on one character
LowerChar(c) ==
    CASE c = "A" -> "a"
      [] c = "B" -> "b"
      [] OTHER -> c

ToLowerCase(s) == [i \in 1..Len(s) |-> LowerChar(s[i])]

RECURSIVE TrimStart(_)
TrimStart(s) ==
    IF s # <<>> /\ Head(s) \in Whitespace THEN TrimStart(Tail(s)) ELSE s

RECURSIVE TrimEnd(_)
TrimEnd(s) ==
    IF s # <<>> /\ s[Len(s)] \in Whitespace
    THEN TrimEnd(SubSeq(s, 1, Len(s) - 1))
    ELSE s

\* String.prototype.trim
Trim(s) == TrimEnd(TrimStart(s))

\* s.replace(/[.,!?;:]/g, '')
StripPunctuation(s) == SelectSeq(s, LAMBDA c : c \notin Punctuation)

\* s.replace(/\s+/g, ' '): every maximal run of whitespace becomes one space
RECURSIVE CollapseWhitespace(_)
CollapseWhitespace(s) ==
    IF s = <<>> THEN <<>>
    ELSE IF Head(s) \in Whitespace
         THEN <<" ">> \o CollapseWhitespace(TrimStart(s))
         ELSE <<Head(s)>> \o CollapseWhitespace(Tail(s))

\* const normalize = (s) => s.toLowerCase().trim().replace(punct).replace(ws)
normalize(s) ==
    CollapseWhitespace(StripPunctuation(Trim(ToLowerCase(s))))

\* handleAnswer: const isRight = normalize(answer) === normalize(q.answer)
IsRight(answer, canonical) == normalize(answer) = normalize(canonical)

(***************************************************************************)
(* JSON values of the provider's answer and of the response                *)
(***************************************************************************)
\* a JSON scalar as the code sees it: typeof (k) and, for a string, its
\* characters; for a number, its decimal digits
JStr(s) == [k |-> "string", s |-> s]
JNum(digits) == [k |-> "number", s |-> digits]
JUndefined == [k |-> "undefined", s |-> <<>>]

\* String(o)
StringOf(v) == IF v.k = "undefined" THEN <<"undefined">> ELSE v.s

\* the "options" member: an array of scalars, or something that is no array
JArray(elems) == [k |-> "array", v |-> elems]
JNoArray == [k |-> "undefined", v |-> <<>>]

\* one element of the provider's array; k = "object" for a JSON object,
\* "null" or "number" for an element that is not an object
RawItem(q, a, o, ty, d, ql, e) ==
    [k |-> "object", question |-> q, answer |-> a, options |-> o, type |-> ty,
     direction |-> d, questionLanguage |-> ql, explanation |-> e]

NonObject(kind) ==
    [k |-> kind, question |-> JUndefined, answer |-> JUndefined,
     options |-> JNoArray, type |-> "", direction |-> "",
     questionLanguage |-> "", explanation |-> JUndefined]

\* interface Question; hasOptions = FALSE stands for options: undefined
Question(q, a, hasOpts, opts, d, ty, ql, e) ==
    [question |-> q, answer |-> a, hasOptions |-> hasOpts, options |-> opts,
     direction |-> d, type |-> ty, questionLanguage |-> ql, explanation |-> e]

(***************************************************************************)
(* Sequence helpers                                                        *)
(***************************************************************************)
\* Array.prototype.includes
Includes(arr, x) == \E i \in 1..Len(arr) : arr[i] = x

\* Array.from(new Set(arr)): first occurrences, in order
RECURSIVE Unique(_)
Unique(arr) ==
    IF arr = <<>> THEN <<>>
    ELSE LET init == Unique(SubSeq(arr, 1, Len(arr) - 1))
             last == arr[Len(arr)]
         IN  IF Includes(init, last) THEN init ELSE Append(init, last)

\* arr.slice(0, n)
SliceTo(arr, n) ==
    IF n <= 0 THEN <<>> ELSE SubSeq(arr, 1, IF n < Len(arr) THEN n ELSE Len(arr))

Min(a, b) == IF a < b THEN a ELSE b

\* number of positions of arr that hold x
Occurrences(arr, x) == Cardinality({i \in 1..Len(arr) : arr[i] = x})

\* shuffle (Fisher-Yates with Math.random): every permutation is an outcome
shuffle(arr) ==
    {[i \in 1..Len(arr) |-> arr[p[i]]] : p \in Permutations(1..Len(arr))}

(***************************************************************************)
(* parseQuestionsFromText                                                  *)
(***************************************************************************)
DefaultExplanationFill ==
    <<"The correct option best completes the sentence naturally in the target language.">>
DefaultExplanation ==
    <<"The correct answer best matches the intended meaning and natural usage in this context.">>

MsgInvalidJSON == "AI returned invalid JSON. Please retry this skill band."
MsgNotArray == "AI response is not a valid array of questions."
MsgNoValid == "No valid questions could be extracted from AI response"

\* typeof raw.x === 'string' && raw.x.trim().length > 0 ? raw.x.trim() : ''
TrimmedText(v) ==
    IF v.k = "string" /\ Len(Trim(v.s)) > 0 THEN Trim(v.s) ELSE <<>>

\* lines 322-327, had the raw direction been passed on as it came
NormDirectionAsGiven(d) == d

\* lines 322-327
NormDirection(d) ==
    IF d = "target-to-en" THEN "target-to-en"
    ELSE IF d = "target-to-target" THEN "target-to-target"
    ELSE "en-to-target"

\* lines 329-330
NormQuestionLanguage(ql) == IF ql = "target" THEN "target" ELSE "en"

\* line 332, had an empty options array counted as options
HasOptionsAnyArray(raw) == raw.options.k = "array"

\* line 332
HasOptions(raw) == raw.options.k = "array" /\ Len(raw.options.v) > 0

\* lines 335-342, had the type been inferredType (line 333) whatever the tag
ItemTypeInferredOnly(raw) ==
    IF HasOptions(raw) THEN "multiple-choice" ELSE "type-answer"

\* lines 335-342, had the options been looked at before the type-answer
\* tag and the multiple-choice tag been taken at its word
ItemTypeOptionsFirst(raw) ==
    IF raw.type = "fill-in-the-blanks" THEN "fill-in-the-blanks"
    ELSE IF HasOptions(raw) \/ raw.type = "multiple-choice" THEN "multiple-choice"
    ELSE "type-answer"

\* lines 335-342
ItemType(raw) ==
    IF raw.type = "fill-in-the-blanks" THEN "fill-in-the-blanks"
    ELSE IF raw.type = "type-answer" \/ ~HasOptions(raw) THEN "type-answer"
    ELSE "multiple-choice"

\* line 356, mutated: one cap for both types
MaxOptionsOneCap(type) == 5

\* line 356
MaxOptions(type) == IF type = "fill-in-the-blanks" THEN 4 ELSE 5

\* lines 346-355, had the answer not been appended
UniqueOptionsAsGiven(raw, aText) ==
    LET rawOptions == IF raw.options.k = "array" THEN raw.options.v ELSE <<>>
        mapped == [i \in 1..Len(rawOptions) |-> Trim(StringOf(rawOptions[i]))]
    IN  Unique(SelectSeq(mapped, LAMBDA o : Len(o) > 0))

\* lines 346-355: trimmed, non-empty, answer appended when missing, deduplicated
UniqueOptions(raw, aText) ==
    LET rawOptions == IF raw.options.k = "array" THEN raw.options.v ELSE <<>>
        mapped == [i \in 1..Len(rawOptions) |-> Trim(StringOf(rawOptions[i]))]
        baseOptions == SelectSeq(mapped, LAMBDA o : Len(o) > 0)
        withAnswer == IF Includes(baseOptions, aText) THEN baseOptions
                      ELSE Append(baseOptions, aText)
    IN  Unique(withAnswer)

\* line 357: shuffle(unique).slice(0, Math.min(unique.length, maxOptions))
OptionOutcomes(unique, type) ==
    {SliceTo(o, Min(Len(unique), MaxOptions(type))) : o \in shuffle(unique)}

\* lines 365-374
ItemExplanation(raw, type) ==
    LET explanationText == TrimmedText(raw.explanation)
    IN  IF explanationText # <<>> THEN explanationText
        ELSE IF type = "fill-in-the-blanks" THEN DefaultExplanationFill
        ELSE DefaultExplanation

\* the body of the for loop (lines 305-384): the questions it may push for
\* one element, one per outcome of the shuffle; empty when it continues
ItemQuestions(raw) ==
    IF raw.k # "object" THEN {}
    ELSE
    LET qText == TrimmedText(raw.question)
        aText == TrimmedText(raw.answer)
        type == ItemType(raw)
        withOptions == type \in {"multiple-choice", "fill-in-the-blanks"}
        outcomes == IF withOptions
                    THEN {o \in OptionOutcomes(UniqueOptions(raw, aText), type) :
                            Len(o) >= 2}
                    ELSE {<<>>}
    IN  IF qText = <<>> \/ aText = <<>> THEN {}
        ELSE {Question(qText, aText, withOptions, o, NormDirection(raw.direction),
                       type, NormQuestionLanguage(raw.questionLanguage),
                       ItemExplanation(raw, type)) : o \in outcomes}

\* the for loop with its break (lines 304-389): the lists it may end with
RECURSIVE CollectQuestions(_, _, _)
CollectQuestions(items, list, count) ==
    IF items = <<>> THEN {list}
    ELSE LET pushed == ItemQuestions(Head(items))
         IN  IF pushed = {} THEN CollectQuestions(Tail(items), list, count)
             ELSE UNION {
                    IF Len(list) + 1 >= count
                    THEN {Append(list, q)}
                    ELSE CollectQuestions(Tail(items), Append(list, q), count)
                    : q \in pushed}

\* ---- the raw text, as a sequence of tokens
NoItem == NonObject("none")
Tok(tk) == [tk |-> tk, item |-> NoItem]
Val(item) == [tk |-> "value", item |-> item]
\* "fenceJson": ```json (any case), "fence": ```, "ws": white space,
\* "prose": text without brackets, "[" and "]", "value": one element of an
\* array, "object": a JSON object that stands alone

RECURSIVE SkipWs(_)
SkipWs(t) == IF t # <<>> /\ Head(t).tk = "ws" THEN SkipWs(Tail(t)) ELSE t

\* .replace(/```json\s*/gi, '').replace(/```\s*/g, '')
RECURSIVE StripFences(_)
StripFences(t) ==
    IF t = <<>> THEN <<>>
    ELSE IF Head(t).tk \in {"fenceJson", "fence"} THEN StripFences(SkipWs(Tail(t)))
    ELSE <<Head(t)>> \o StripFences(Tail(t))

RECURSIVE DropTrailingWs(_)
DropTrailingWs(t) ==
    IF t # <<>> /\ t[Len(t)].tk = "ws"
    THEN DropTrailingWs(SubSeq(t, 1, Len(t) - 1))
    ELSE t

TrimTokens(t) == DropTrailingWs(SkipWs(t))

\* content.indexOf('['), 0-based, -1 when absent
IndexOfOpen(t) ==
    LET hits == {i \in 1..Len(t) : t[i].tk = "["}
    IN  IF hits = {} THEN -1 ELSE (CHOOSE i \in hits : \A j \in hits : i <= j) - 1

\* content.lastIndexOf(']'), 0-based, -1 when absent
LastIndexOfClose(t) ==
    LET hits == {i \in 1..Len(t) : t[i].tk = "]"}
    IN  IF hits = {} THEN -1 ELSE (CHOOSE i \in hits : \A j \in hits : i >= j) - 1

\* lines 274-287, had the text outside the brackets been kept
ArraySpanWholeText(rawText) == TrimTokens(StripFences(rawText))

\* lines 274-287: the text handed to JSON.parse
ArraySpan(rawText) ==
    LET content == TrimTokens(StripFences(rawText))
        firstBracket == IndexOfOpen(content)
        fromFirst == IF firstBracket > 0
                     THEN SubSeq(content, firstBracket + 1, Len(content))
                     ELSE content
        lastBracket == LastIndexOfClose(fromFirst)
    IN  IF lastBracket # -1 /\ lastBracket < Len(fromFirst) - 1
        THEN SubSeq(fromFirst, 1, lastBracket + 1)
        ELSE fromFirst

\* JSON.parse: [k: "array" with its elements | "other" | "throws"]
JsonParse(content) ==
    LET t == SelectSeq(content, LAMBDA x : x.tk # "ws")
    IN  IF /\ Len(t) >= 2
           /\ t[1].tk = "[" /\ t[Len(t)].tk = "]"
           /\ \A i \in 2..(Len(t) - 1) : t[i].tk = "value"
        THEN [k |-> "array", v |-> [i \in 1..(Len(t) - 2) |-> t[i + 1].item]]
        ELSE IF Len(t) = 1 /\ t[1].tk = "object"
        THEN [k |-> "other", v |-> <<>>]
        ELSE [k |-> "throws", v |-> <<>>]

Returned(list) == [status |-> "ok", error |-> "", questions |-> list]
Thrown(msg) == [status |-> "error", error |-> msg, questions |-> <<>>]

\* parseQuestionsFromText(rawText, count): the set of its possible outcomes,
\* a returned list or a thrown error
parseQuestionsFromText(rawText, count) ==
    LET parsed == JsonParse(ArraySpan(rawText))
    IN  IF parsed.k = "throws" THEN {Thrown(MsgInvalidJSON)}
        ELSE IF parsed.k # "array" THEN {Thrown(MsgNotArray)}
        ELSE {IF list = <<>> THEN Thrown(MsgNoValid) ELSE Returned(list) :
                list \in CollectQuestions(parsed.v, <<>>, count)}

(***************************************************************************)
(* The client's pass over the received questions (generateQuestions)       *)
(***************************************************************************)
QUESTIONS_PER_BAND == 6

\* lines 198-205
ClientType(q) ==
    IF q.type = "fill-in-the-blanks" THEN "fill-in-the-blanks"
    ELSE IF q.type = "type-answer" \/ ~q.hasOptions \/ Len(q.options) = 0
    THEN "type-answer"
    ELSE "multiple-choice"

\* lines 207-216: the option lists the client may store for q
ClientOptionOutcomes(q, type) ==
    LET baseOptions == IF q.hasOptions THEN q.options ELSE <<>>
        withAnswer == IF Includes(baseOptions, q.answer) THEN baseOptions
                      ELSE Append(baseOptions, q.answer)
        unique == Unique(withAnswer)
    IN  {SliceTo(o, MaxOptions(type)) : o \in shuffle(unique)}

\* the map callback (lines 187-227): the questions it may return for q
ClientQuestions(q) ==
    LET type == ClientType(q)
        withOptions == type \in {"multiple-choice", "fill-in-the-blanks"}
        outcomes == IF withOptions THEN ClientOptionOutcomes(q, type) ELSE {<<>>}
    IN  {Question(q.question, q.answer, withOptions, o, NormDirection(q.direction),
                  type, NormQuestionLanguage(q.questionLanguage), q.explanation)
            : o \in outcomes}

\* data.filter(...).map(...): the lists the map may produce
RECURSIVE ClientMap(_)
ClientMap(data) ==
    IF data = <<>> THEN {<<>>}
    ELSE {<<q>> \o rest : q \in ClientQuestions(Head(data)), rest \in ClientMap(Tail(data))}

\* lines 185-228: sanitized, the list handed to setQuestions
ClientSanitized(data) == {SliceTo(l, QUESTIONS_PER_BAND) : l \in ClientMap(data)}

(***************************************************************************)
(* POST /api/questions and generateWithGroq                                *)
(***************************************************************************)
\* a member of the request body: typeof (k), the value of a number (n), the
\* characters of a string (s)
BNum(n) == [k |-> "number", n |-> n, s |-> <<>>]
BStr(s) == [k |-> "string", n |-> 0, s |-> s]
BOther(kind) == [k |-> kind, n |-> 0, s |-> <<>>]
BUndefined == BOther("undefined")

\* the parsed body; k = "object" for a JSON object, "null" for the body null
\* (its members cannot be read), "invalid" when req.json() rejects
Body(lang, lvl, band, count) ==
    [k |-> "object", language |-> lang, level |-> lvl, band |-> band, count |-> count]
BodyOfKind(kind) ==
    [k |-> kind, language |-> BUndefined, level |-> BUndefined,
     band |-> BUndefined, count |-> BUndefined]

\* a number as the handler holds it: NaN or an integer
NaN == [nan |-> TRUE, n |-> 0]
Num(n) == [nan |-> FALSE, n |-> n]

Digits == <<"0", "1", "2", "3", "4", "5", "6", "7", "8", "9">>
IsDigit(c) == \E d \in 1..10 : Digits[d] = c
DigitValue(c) == (CHOOSE d \in 1..10 : Digits[d] = c) - 1

RECURSIVE DecimalValue(_)
DecimalValue(s) ==
    IF s = <<>> THEN 0
    ELSE 10 * DecimalValue(SubSeq(s, 1, Len(s) - 1)) + DigitValue(s[Len(s)])

\* Number(string): white space is trimmed, the empty string is 0, an
\* optionally signed run of digits is its value, anything else NaN
NumberOfString(s) ==
    LET t == Trim(s)
        neg == t # <<>> /\ Head(t) = "-"
        digits == IF neg THEN Tail(t) ELSE t
    IN  IF t = <<>> THEN Num(0)
        ELSE IF digits # <<>> /\ \A i \in 1..Len(digits) : IsDigit(digits[i])
        THEN Num(IF neg THEN 0 - DecimalValue(digits) ELSE DecimalValue(digits))
        ELSE NaN

\* lines 489-494
BandOf(body) ==
    IF body.band.k = "number" THEN Num(body.band.n)
    ELSE IF body.band.k = "string" THEN NumberOfString(body.band.s)
    ELSE NaN

\* lines 496-501
CountOf(body) ==
    IF body.count.k = "number" THEN Num(body.count.n)
    ELSE IF body.count.k = "string" THEN NumberOfString(body.count.s)
    ELSE Num(6)

\* !language, !level: undefined, null and the empty string are falsy
Falsy(v) == v.k \in {"undefined", "null"} \/ (v.k = "string" /\ v.s = <<>>)

\* line 503, mutated: count is not examined
InvalidParametersNoCount(body) ==
    Falsy(body.language) \/ Falsy(body.level) \/ BandOf(body).nan

\* line 503
InvalidParameters(body) ==
    Falsy(body.language) \/ Falsy(body.level) \/ BandOf(body).nan \/ CountOf(body).nan

MsgBadParameters == "Missing or invalid parameters: language, level, band, or count"
MsgNoKey == "GROQ_API_KEY is not set in environment variables"
MsgEmpty == "Groq returned empty response"
MsgFetchFailed == "fetch failed"
MsgBodyUnreadable == "Cannot read properties of null (reading 'language')"
MsgBodyInvalid == "Unexpected end of JSON input"

\* `Groq API error: HTTP ${resp.status}`
MsgHttp(status) ==
    CASE status = 429 -> "Groq API error: HTTP 429"
      [] status = 503 -> "Groq API error: HTTP 503"
      [] status = 500 -> "Groq API error: HTTP 500"
      [] status = 401 -> "Groq API error: HTTP 401"
      [] OTHER -> "Groq API error: HTTP"

\* error.message.includes('JSON')
\* the retry test, had it accepted every error message
IncludesJSONAlways(msg) == msg = msg

IncludesJSON(msg) == msg \in {MsgInvalidJSON, MsgBodyInvalid}

NoResponse == [status |-> 0, error |-> "", questions |-> <<>>]
Response(status, error, list) ==
    [status |-> status, error |-> error, questions |-> list]

\* one entry of srvLog: the HTTP status of the provider's answer and, for
\* 200, what became of its text: "returned", or the error thrown
LogEntry(status, outcome) == [status |-> status, outcome |-> outcome]

\* lines 527-541, mutated: the error is sent with status 200
Fail500As200(msg) ==
    /\ srvPc' = "done"
    /\ srvResponse' = Response(200, msg, <<>>)

\* the catch block of POST (lines 527-541): every error becomes a 500
Fail500(msg) ==
    /\ srvPc' = "done"
    /\ srvResponse' = Response(500, msg, <<>>)

\* resp.status === 429 || resp.status === 503
Transient(status) == status = 429 \/ status = 503

\* lines 449 and 471, mutated: one more retry
\* retryCount < 2, had the budget not been tested
RetryAllowedAlways(rc) == TRUE

RetryAllowedThree(rc) == rc < 3

\* lines 449 and 471: retryCount < 2
RetryAllowed(rc) == rc < 2

\* generateWithGroq, had it gone to the provider without testing the key
generateWithGroqNoKeyTest(rc) ==
    /\ srvPc' = "http"
    /\ retryCount' = rc
    /\ httpCalls' = httpCalls + 1
    /\ srvResponse' = NoResponse

\* entry of generateWithGroq(taskInstruction, count, rc), up to the fetch
\* (lines 413-442)
generateWithGroq(rc) ==
    IF ~apiKey
    THEN /\ Fail500(MsgNoKey)
         /\ UNCHANGED <<retryCount, httpCalls>>
    ELSE /\ srvPc' = "http"
         /\ retryCount' = rc
         /\ httpCalls' = httpCalls + 1
         /\ srvResponse' = NoResponse

\* POST up to its first await of the provider (lines 481-514)
POST(body) ==
    /\ srvPc = "idle"
    /\ srvBody' = body
    /\ srvLog' = <<>>
    /\ UNCHANGED apiKey
    /\ IF body.k = "invalid"
       THEN Fail500(MsgBodyInvalid) /\ UNCHANGED <<retryCount, httpCalls>>
       ELSE IF body.k = "null"
       THEN Fail500(MsgBodyUnreadable) /\ UNCHANGED <<retryCount, httpCalls>>
       ELSE IF InvalidParameters(body)
       THEN /\ srvPc' = "done"
            /\ srvResponse' = Response(400, MsgBadParameters, <<>>)
            /\ UNCHANGED <<retryCount, httpCalls>>
       ELSE generateWithGroq(0)

\* the provider answers with a status that is not OK (lines 444-456, and
\* the catch block for the error thrown at line 455)
ProviderError(status) ==
    /\ srvPc = "http"
    /\ srvLog' = Append(srvLog, LogEntry(status, "http"))
    /\ UNCHANGED <<srvBody, apiKey>>
    /\ IF Transient(status) /\ RetryAllowed(retryCount)
       THEN generateWithGroq(retryCount + 1)
       ELSE /\ Fail500(MsgHttp(status))
            /\ UNCHANGED <<retryCount, httpCalls>>

\* the provider answers 200 with message content text (lines 458-478)
ProviderText(text) ==
    /\ srvPc = "http"
    /\ UNCHANGED <<srvBody, apiKey>>
    /\ LET rawText == TrimTokens(text)
       IN  IF rawText = <<>>
           THEN /\ srvLog' = Append(srvLog, LogEntry(200, MsgEmpty))
                /\ Fail500(MsgEmpty)
                /\ UNCHANGED <<retryCount, httpCalls>>
           ELSE \E r \in parseQuestionsFromText(rawText, CountOf(srvBody).n) :
                  IF r.status = "ok"
                  THEN /\ srvLog' = Append(srvLog, LogEntry(200, "returned"))
                       /\ srvPc' = "done"
                       /\ srvResponse' = Response(200, "", r.questions)
                       /\ UNCHANGED <<retryCount, httpCalls>>
                  ELSE /\ srvLog' = Append(srvLog, LogEntry(200, r.error))
                       /\ IF RetryAllowed(retryCount) /\ IncludesJSON(r.error)
                          THEN generateWithGroq(retryCount + 1)
                          ELSE /\ Fail500(r.error)
                               /\ UNCHANGED <<retryCount, httpCalls>>

\* fetch rejects: the provider cannot be reached (caught at line 467)
ProviderUnreachable ==
    /\ srvPc = "http"
    /\ srvLog' = Append(srvLog, LogEntry(0, MsgFetchFailed))
    /\ UNCHANGED <<srvBody, apiKey>>
    /\ Fail500(MsgFetchFailed)
    /\ UNCHANGED <<retryCount, httpCalls>>


(***************************************************************************)
(* The quiz client: LanguageTutorApp                                       *)
(***************************************************************************)
\* null of selectedLanguage, selectedLevel and fetchError
NULL == "null"

\* a slot of answers that holds no AnswerRecord (a hole of the JS array)
NoRecord ==
    [present |-> FALSE, question |-> <<>>, userAnswer |-> <<>>,
     correctAnswer |-> <<>>, correct |-> FALSE, explanation |-> <<>>]

\* interface AnswerRecord
AnswerRecord(q, a, ca, c, e) ==
    [present |-> TRUE, question |-> q, userAnswer |-> a,
     correctAnswer |-> ca, correct |-> c, explanation |-> e]

\* one element of sessionReports (lines 296-303)
BandEntry(band, level, language, answered, sc, total) ==
    [band |-> band, level |-> level, language |-> language,
     answers |-> answered, score |-> sc, total |-> total]

\* ---- what the learner enters
\* the username field: empty, blank, a name
UsernameInputs == {<<>>, <<" ">>, <<"u">>}
\* two of the keys of languages, one of the names of levels
LanguageInputs == {"French", "German"}
LevelInputs == {"Basic"}
\* the band the learner picks in the dropdown before starting; band 5 is
\* reached from the report of band 4
BandInputs == {4}
\* the text field of a type-answer question: blank, or the answer "a" in
\* another case and with punctuation; wrong answers are given by option
TypedInputs == {<<" ">>, <<"A", "!">>}

MsgNoQuestions == "AI returned no questions"
MsgNoUsable == "No usable questions from AI"
MsgAborted == "The operation was aborted."
MsgFailedToFetch == "Failed to fetch"

\* the body generateQuestions posts (lines 161-167)
RequestBody(langKey, level, band) ==
    Body(BStr(<<langKey>>), BStr(<<level>>), BNum(band), BNum(QUESTIONS_PER_BAND))

\* what the quiz screen renders (lines 806-873)
QuizView ==
    IF screen # "quiz" THEN "none"
    ELSE IF loading THEN "loading"
    ELSE IF Len(questions) = 0 THEN "error"
    ELSE IF currentQuestionIndex >= Len(questions) THEN "blank"
    ELSE "question"

\* const currentQ = questions[currentQuestionIndex]
currentQ == questions[currentQuestionIndex + 1]

\* next[currentQuestionIndex] = record, on a copy of prev
SetAt(prev, index, record) ==
    [i \in 1..(IF index + 1 > Len(prev) THEN index + 1 ELSE Len(prev)) |->
        IF i = index + 1 THEN record
        ELSE IF i <= Len(prev) THEN prev[i]
        ELSE NoRecord]

\* answers.filter((a) => !!a)
\* answers.filter((a) => !!a), had the filter been left out
AnsweredWithGaps(arr) == arr

Answered(arr) == SelectSeq(arr, LAMBDA a : a.present)

\* the request of generateQuestions is on the wire; the endpoint has not
\* yet seen it
SendRequest(langKey, level, band) ==
    /\ fetchPc' = "sent"
    /\ fetchBody' = RequestBody(langKey, level, band)
    /\ srvPc' = "idle"
    /\ UNCHANGED <<srvBody, apiKey, retryCount, httpCalls, srvLog, srvResponse>>

\* the endpoint's variables once the client has its answer, or has given
\* up waiting for it
ReleaseRequest ==
    /\ fetchPc' = "none"
    /\ fetchBody' = BodyOfKind("none")
    /\ srvPc' = "off"
    /\ srvBody' = BodyOfKind("none")
    /\ retryCount' = 0
    /\ httpCalls' = 0
    /\ srvLog' = <<>>
    /\ srvResponse' = NoResponse
    /\ UNCHANGED apiKey

\* startBand(langKey, level, band) with the synchronous head of
\* generateQuestions (lines 245-256, 150-169)
\* startBand, had it emptied the session history
startBandDropsHistory(langKey, level, band) ==
    /\ skillBand' = band
    /\ currentQuestionIndex' = 0
    /\ score' = 0
    /\ answers' = <<>>
    /\ userAnswer' = <<>>
    /\ showResult' = FALSE
    /\ isCorrect' = FALSE
    /\ screen' = "quiz"
    /\ loading' = TRUE
    /\ fetchError' = NULL
    /\ sessionReports' = <<>>
    /\ SendRequest(langKey, level, band)
    /\ UNCHANGED <<username, selectedLanguage, selectedLevel, questions>>
    /\ UNCHANGED <<normVars, sanVars, tutVars>>

startBand(langKey, level, band) ==
    /\ skillBand' = band
    /\ currentQuestionIndex' = 0
    /\ score' = 0
    /\ answers' = <<>>
    /\ userAnswer' = <<>>
    /\ showResult' = FALSE
    /\ isCorrect' = FALSE
    /\ screen' = "quiz"
    /\ loading' = TRUE
    /\ fetchError' = NULL
    /\ SendRequest(langKey, level, band)
    /\ UNCHANGED <<username, selectedLanguage, selectedLevel, questions, sessionReports>>
    /\ UNCHANGED <<normVars, sanVars, tutVars>>

\* lines 235-242, mutated: no finally block, loading stays set
FetchFailedStillLoading(message) ==
    /\ questions' = <<>>
    /\ fetchError' = message
    /\ UNCHANGED loading

\* lines 235-242, mutated: the catch block leaves questions as they are
FetchFailedKeepQuestions(message) ==
    /\ fetchError' = message
    /\ loading' = FALSE
    /\ UNCHANGED questions

\* the catch and finally blocks of generateQuestions (lines 235-242)
FetchFailed(message) ==
    /\ questions' = <<>>
    /\ fetchError' = message
    /\ loading' = FALSE

\* handleAnswer(answer) (lines 258-281)
handleAnswer(answer) ==
    LET q == currentQ
        isRight == IsRight(answer, q.answer)
    IN  /\ isCorrect' = isRight
        /\ showResult' = TRUE
        /\ answers' = SetAt(answers, currentQuestionIndex,
                            AnswerRecord(q.question, answer, q.answer, isRight,
                                         q.explanation))
        /\ score' = IF isRight THEN score + 1 ELSE score
        /\ UNCHANGED <<screen, username, selectedLanguage, selectedLevel, skillBand,
                       questions, currentQuestionIndex, userAnswer, loading,
                       fetchError, sessionReports, fetchPc, fetchBody>>
        /\ UNCHANGED <<normVars, sanVars, srvVars, tutVars>>

\* the score the model lets a band reach (score itself has no bound)
ScoreRoom(answer) == IsRight(answer, currentQ.answer) => score < MaxScore

\* ---- welcome screen (lines 602-635)
SetUsername ==
    /\ screen = "welcome"
    /\ \E text \in UsernameInputs :
         /\ text # username
         /\ username' = text
    /\ UNCHANGED <<screen, selectedLanguage, selectedLevel, skillBand, questions,
                   currentQuestionIndex, score, answers, userAnswer, showResult,
                   isCorrect, loading, fetchError, sessionReports, fetchPc, fetchBody>>
    /\ UNCHANGED <<normVars, sanVars, srvVars, tutVars>>

GetStarted ==
    /\ screen = "welcome"
    /\ Trim(username) # <<>>
    /\ screen' = "language"
    /\ UNCHANGED <<username, selectedLanguage, selectedLevel, skillBand, questions,
                   currentQuestionIndex, score, answers, userAnswer, showResult,
                   isCorrect, loading, fetchError, sessionReports, fetchPc, fetchBody>>
    /\ UNCHANGED <<normVars, sanVars, srvVars, tutVars>>

\* ---- language screen (lines 651-654)
ChooseLanguage ==
    /\ screen = "language"
    /\ \E langKey \in LanguageInputs : selectedLanguage' = langKey
    /\ screen' = "level"
    /\ UNCHANGED <<username, selectedLevel, skillBand, questions,
                   currentQuestionIndex, score, answers, userAnswer, showResult,
                   isCorrect, loading, fetchError, sessionReports, fetchPc, fetchBody>>
    /\ UNCHANGED <<normVars, sanVars, srvVars, tutVars>>

\* ---- level screen (lines 715-720)
ChooseLevel ==
    /\ screen = "level"
    /\ selectedLanguage # NULL
    /\ \E lv \in LevelInputs : selectedLevel' = lv
    /\ skillBand' = 1
    /\ screen' = "band"
    /\ UNCHANGED <<username, selectedLanguage, questions,
                   currentQuestionIndex, score, answers, userAnswer, showResult,
                   isCorrect, loading, fetchError, sessionReports, fetchPc, fetchBody>>
    /\ UNCHANGED <<normVars, sanVars, srvVars, tutVars>>

\* ---- band screen (lines 772-798)
SelectBand ==
    /\ screen = "band"
    /\ \E b \in BandInputs :
         /\ b # skillBand
         /\ skillBand' = b
    /\ UNCHANGED <<screen, username, selectedLanguage, selectedLevel, questions,
                   currentQuestionIndex, score, answers, userAnswer, showResult,
                   isCorrect, loading, fetchError, sessionReports, fetchPc, fetchBody>>
    /\ UNCHANGED <<normVars, sanVars, srvVars, tutVars>>

StartThisBand ==
    /\ screen = "band"
    /\ skillBand \in BandInputs
    /\ selectedLanguage # NULL /\ selectedLevel # NULL
    /\ startBand(selectedLanguage, selectedLevel, skillBand)

\* the level cards, one for each entry of levels, of which two are clicked here
LevelChoices == {"Basic", "Moderate"}

ChooseAnyLevel ==
    /\ screen = "level"
    /\ selectedLanguage # NULL
    /\ \E lv \in LevelChoices : selectedLevel' = lv
    /\ skillBand' = 1
    /\ screen' = "band"
    /\ UNCHANGED <<username, selectedLanguage, questions,
                   currentQuestionIndex, score, answers, userAnswer, showResult,
                   isCorrect, loading, fetchError, sessionReports, fetchPc, fetchBody>>
    /\ UNCHANGED <<normVars, sanVars, srvVars, tutVars>>

BackToLevels ==
    /\ screen = "band"
    /\ screen' = "level"
    /\ UNCHANGED <<username, selectedLanguage, selectedLevel, skillBand, questions,
                   currentQuestionIndex, score, answers, userAnswer, showResult,
                   isCorrect, loading, fetchError, sessionReports, fetchPc, fetchBody>>
    /\ UNCHANGED <<normVars, sanVars, srvVars, tutVars>>

\* ---- quiz screen, question view (lines 943-1086)
\* an option button (line 949)
\* the option buttons, had they stayed enabled while the result is shown
ClickOptionWhileResultShown ==
    /\ QuizView = "question"
    /\ currentQ.type \in {"multiple-choice", "fill-in-the-blanks"}
    /\ \E i \in 1..Len(currentQ.options) :
         /\ ScoreRoom(currentQ.options[i])
         /\ handleAnswer(currentQ.options[i])

ClickOption ==
    /\ QuizView = "question"
    /\ currentQ.type \in {"multiple-choice", "fill-in-the-blanks"}
    /\ ~showResult
    /\ \E i \in 1..Len(currentQ.options) :
         /\ ScoreRoom(currentQ.options[i])
         /\ handleAnswer(currentQ.options[i])

\* the text input (line 999)
TypeAnswer ==
    /\ QuizView = "question"
    /\ currentQ.type = "type-answer"
    /\ \E text \in TypedInputs :
         /\ text # userAnswer
         /\ userAnswer' = text
    /\ UNCHANGED <<screen, username, selectedLanguage, selectedLevel, skillBand,
                   questions, currentQuestionIndex, score, answers, showResult,
                   isCorrect, loading, fetchError, sessionReports, fetchPc, fetchBody>>
    /\ UNCHANGED <<normVars, sanVars, srvVars, tutVars>>

\* Enter in the text input, or the Check answer button (lines 1000-1016)
CheckAnswer ==
    /\ QuizView = "question"
    /\ currentQ.type = "type-answer"
    /\ ~showResult
    /\ Trim(userAnswer) # <<>>
    /\ ScoreRoom(userAnswer)
    /\ handleAnswer(userAnswer)

\* lines 306-313, mutated: nothing is filtered out
WithoutTripleKeepAll(prev, bandEntry) == prev

\* prev.filter(...) of handleNext (lines 306-313): the reports of the other
\* (band, level, language) triples
WithoutTriple(prev, bandEntry) ==
    SelectSeq(prev, LAMBDA r : ~(/\ r.band = bandEntry.band
                                 /\ r.level = bandEntry.level
                                 /\ r.language = bandEntry.language))

\* handleNext (lines 283-318)
handleNext ==
    /\ QuizView = "question"
    /\ IF currentQuestionIndex < Len(questions) - 1
       THEN /\ currentQuestionIndex' = currentQuestionIndex + 1
            /\ showResult' = FALSE
            /\ isCorrect' = FALSE
            /\ userAnswer' = <<>>
            /\ UNCHANGED <<screen, sessionReports>>
       ELSE LET bandEntry == BandEntry(skillBand, selectedLevel, selectedLanguage,
                                       Answered(answers), score, Len(questions))
                filtered == WithoutTriple(sessionReports, bandEntry)
            IN  /\ sessionReports' = Append(filtered, bandEntry)
                /\ screen' = "report"
                /\ UNCHANGED <<currentQuestionIndex, showResult, isCorrect, userAnswer>>
    /\ UNCHANGED <<username, selectedLanguage, selectedLevel, skillBand, questions,
                   score, answers, loading, fetchError, fetchPc, fetchBody>>
    /\ UNCHANGED <<normVars, sanVars, srvVars, tutVars>>

\* handlePrevious (lines 320-329); its button is disabled at the first question
\* handlePrevious, had it always cleared the answer text
handlePreviousClearsText ==
    /\ QuizView = "question"
    /\ currentQuestionIndex # 0
    /\ currentQuestionIndex' = currentQuestionIndex - 1
    /\ showResult' = FALSE
    /\ isCorrect' = FALSE
    /\ userAnswer' = <<>>
    /\ UNCHANGED <<screen, username, selectedLanguage, selectedLevel, skillBand,
                   questions, score, answers, loading, fetchError, sessionReports,
                   fetchPc, fetchBody>>
    /\ UNCHANGED <<normVars, sanVars, srvVars, tutVars>>

handlePrevious ==
    /\ QuizView = "question"
    /\ currentQuestionIndex # 0
    /\ LET prevIndex == currentQuestionIndex - 1
           prev == IF prevIndex + 1 <= Len(answers) THEN answers[prevIndex + 1]
                   ELSE NoRecord
       IN  /\ currentQuestionIndex' = prevIndex
           /\ showResult' = FALSE
           /\ isCorrect' = FALSE
           /\ userAnswer' = IF prev.present THEN prev.userAnswer ELSE <<>>
    /\ UNCHANGED <<screen, username, selectedLanguage, selectedLevel, skillBand,
                   questions, score, answers, loading, fetchError, sessionReports,
                   fetchPc, fetchBody>>
    /\ UNCHANGED <<normVars, sanVars, srvVars, tutVars>>

\* ---- the buttons below a question, on the error view and on the report
\* mutated: the loading view has a retry button as well
CanRetryBandWhileLoading == screen = "quiz" \/ screen = "report"

CanRetryBand == QuizView \in {"error", "question"} \/ screen = "report"
CanChangeLevel == QuizView = "question" \/ screen = "report"
CanChangeLanguage ==
    screen = "level" \/ QuizView \in {"error", "question"} \/ screen = "report"
CanResetSession == QuizView = "error"
CanGoToNextBand == screen = "report" /\ skillBand < 5

\* resetBand (lines 350-353), and the retry button of the error view
\* (lines 845-848)
resetBand ==
    /\ CanRetryBand
    /\ selectedLanguage # NULL /\ selectedLevel # NULL
    /\ startBand(selectedLanguage, selectedLevel, skillBand)

\* goToLevelSelection (lines 360-373)
\* goToLevelSelection, had it emptied the session history as
\* resetLanguageFlow does
\* goToLevelSelection, had it gone to the band screen with setScreen('band')
goToLevelSelectionToBand ==
    /\ CanChangeLevel
    /\ skillBand' = 1
    /\ currentQuestionIndex' = 0
    /\ score' = 0
    /\ answers' = <<>>
    /\ questions' = <<>>
    /\ userAnswer' = <<>>
    /\ showResult' = FALSE
    /\ isCorrect' = FALSE
    /\ fetchError' = NULL
    /\ selectedLevel' = NULL
    /\ screen' = "band"
    /\ UNCHANGED <<username, selectedLanguage, loading, sessionReports, fetchPc, fetchBody>>
    /\ UNCHANGED <<normVars, sanVars, srvVars, tutVars>>

goToLevelSelectionDropsHistory ==
    /\ CanChangeLevel
    /\ skillBand' = 1
    /\ currentQuestionIndex' = 0
    /\ score' = 0
    /\ answers' = <<>>
    /\ questions' = <<>>
    /\ userAnswer' = <<>>
    /\ showResult' = FALSE
    /\ isCorrect' = FALSE
    /\ fetchError' = NULL
    /\ selectedLevel' = NULL
    /\ sessionReports' = <<>>
    /\ screen' = "level"
    /\ UNCHANGED <<username, selectedLanguage, loading, fetchPc, fetchBody>>
    /\ UNCHANGED <<normVars, sanVars, srvVars, tutVars>>

goToLevelSelection ==
    /\ CanChangeLevel
    /\ skillBand' = 1
    /\ currentQuestionIndex' = 0
    /\ score' = 0
    /\ answers' = <<>>
    /\ questions' = <<>>
    /\ userAnswer' = <<>>
    /\ showResult' = FALSE
    /\ isCorrect' = FALSE
    /\ fetchError' = NULL
    /\ selectedLevel' = NULL
    /\ screen' = "level"
    /\ UNCHANGED <<username, selectedLanguage, loading, sessionReports, fetchPc, fetchBody>>
    /\ UNCHANGED <<normVars, sanVars, srvVars, tutVars>>

\* resetLanguageFlow (lines 376-391)
\* resetLanguageFlow, had it left the session history in place
resetLanguageFlowKeepsHistory ==
    /\ CanChangeLanguage
    /\ skillBand' = 1
    /\ currentQuestionIndex' = 0
    /\ score' = 0
    /\ answers' = <<>>
    /\ questions' = <<>>
    /\ userAnswer' = <<>>
    /\ showResult' = FALSE
    /\ isCorrect' = FALSE
    /\ fetchError' = NULL
    /\ selectedLanguage' = NULL
    /\ selectedLevel' = NULL
    /\ screen' = "language"
    /\ UNCHANGED <<username, loading, sessionReports, fetchPc, fetchBody>>
    /\ UNCHANGED <<normVars, sanVars, srvVars, tutVars>>

resetLanguageFlow ==
    /\ CanChangeLanguage
    /\ selectedLanguage' = NULL
    /\ selectedLevel' = NULL
    /\ skillBand' = 1
    /\ currentQuestionIndex' = 0
    /\ score' = 0
    /\ answers' = <<>>
    /\ questions' = <<>>
    /\ userAnswer' = <<>>
    /\ showResult' = FALSE
    /\ isCorrect' = FALSE
    /\ fetchError' = NULL
    /\ sessionReports' = <<>>
    /\ screen' = "language"
    /\ UNCHANGED <<username, loading, fetchPc, fetchBody>>
    /\ UNCHANGED <<normVars, sanVars, srvVars, tutVars>>

\* resetSession (lines 331-348)
\* resetSession, had it left the session history in place
resetSessionKeepsHistory ==
    /\ CanResetSession
    /\ screen' = "welcome"
    /\ username' = <<>>
    /\ selectedLanguage' = NULL
    /\ selectedLevel' = NULL
    /\ skillBand' = 1
    /\ currentQuestionIndex' = 0
    /\ score' = 0
    /\ answers' = <<>>
    /\ questions' = <<>>
    /\ userAnswer' = <<>>
    /\ showResult' = FALSE
    /\ isCorrect' = FALSE
    /\ fetchError' = NULL
    /\ UNCHANGED <<loading, sessionReports, fetchPc, fetchBody>>
    /\ UNCHANGED <<normVars, sanVars, srvVars, tutVars>>

resetSession ==
    /\ CanResetSession
    /\ screen' = "welcome"
    /\ username' = <<>>
    /\ selectedLanguage' = NULL
    /\ selectedLevel' = NULL
    /\ skillBand' = 1
    /\ currentQuestionIndex' = 0
    /\ score' = 0
    /\ answers' = <<>>
    /\ questions' = <<>>
    /\ userAnswer' = <<>>
    /\ showResult' = FALSE
    /\ isCorrect' = FALSE
    /\ fetchError' = NULL
    /\ sessionReports' = <<>>
    /\ UNCHANGED <<loading, fetchPc, fetchBody>>
    /\ UNCHANGED <<normVars, sanVars, srvVars, tutVars>>

\* goToNextBand (lines 393-398)
\* goToNextBand, had it been offered and carried out at any band
goToNextBandUncapped ==
    /\ screen = "report"
    /\ selectedLanguage # NULL /\ selectedLevel # NULL
    /\ startBand(selectedLanguage, selectedLevel, skillBand + 1)

goToNextBand ==
    /\ CanGoToNextBand
    /\ selectedLanguage # NULL /\ selectedLevel # NULL
    /\ skillBand < 5
    /\ startBand(selectedLanguage, selectedLevel, skillBand + 1)

\* handleDownloadPdf (lines 401-591), the button of the report screen: it
\* reads sessionReports, sorts a copy of it and writes the document; it
\* calls no setter of the component
handleDownloadPdf ==
    /\ screen = "report"
    /\ UNCHANGED vars

\* sessionReports.flatMap((r) => r.answers)
RECURSIVE FlatMapAnswers(_)
FlatMapAnswers(reports) ==
    IF reports = <<>> THEN <<>>
    ELSE Head(reports).answers \o FlatMapAnswers(Tail(reports))

\* the figures of "Overall Performance" in the document (lines 456-458)
allAnswers == FlatMapAnswers(sessionReports)
totalQuestions == Len(allAnswers)
totalCorrect == Len(SelectSeq(allAnswers, LAMBDA a : a.correct))

(***************************************************************************)
(* The chat tutor page (Home)                                              *)
(***************************************************************************)
\* the options of the two selects that are picked here
TutorLanguages == {"French", "German"}
TutorLevels == {"Basic", "Moderate"}
\* what the learner types into the textarea
AnswerInputs == {"", "oui"}
\* what /api/tutor answers with
ReplyTexts == {"Bien"}
NextQuestions ==
    {[text |-> "q1", mode |-> "text", options |-> <<>>],
     [text |-> "q2", mode |-> "mcq", options |-> <<"oui", "non">>]}
ScoreUpdates == {[correctDelta |-> c, totalDelta |-> 1] : c \in {0, 1}}
TutorData ==
    [replyText : ReplyTexts, nextQuestion : NextQuestions, scoreUpdate : ScoreUpdates]

\* currentQuestion being null
NoQuestion == [text |-> "", mode |-> "null", options |-> <<>>]

Message(role, text) == [role |-> role, text |-> text]

\* the useState initial values of Home
HomeInitial ==
    [language |-> "French", level |-> "Basic", scoreCorrect |-> 0, scoreTotal |-> 0,
     questionNumber |-> 0, currentQuestion |-> NoQuestion, answer |-> "", chat |-> <<>>,
     loading |-> FALSE]

\* the six setters of handleResetSession, applied to the state h
SessionReset(h) ==
    [h EXCEPT !.scoreCorrect = 0, !.scoreTotal = 0, !.questionNumber = 0,
              !.currentQuestion = NoQuestion, !.answer = "", !.chat = <<>>]

\* callTutor up to its await: the request carries the values of this render
callTutor(nextAnswer) ==
    /\ home' = [home EXCEPT !.loading = TRUE]
    /\ tutorCalls' = tutorCalls \cup
           {[language |-> home.language, level |-> home.level, history |-> home.chat,
             questionNumber |-> home.questionNumber, answer |-> nextAnswer]}

\* the Ask tutor button, disabled while loading
handleAskTutor ==
    /\ ~home.loading
    /\ home.questionNumber < MaxTurns
    /\ Len(home.chat) < 2 * MaxTurns
    /\ callTutor(home.answer)
    /\ afterReset' = FALSE
    /\ UNCHANGED <<normVars, sanVars, srvVars, cliVars>>

\* callTutor after its await, the response being ok: chat is the chat of the
\* render that made the call; the counters are functional updates
TutorResponds ==
    /\ \E call \in tutorCalls, data \in TutorData :
         LET newChat ==
                 call.history \o
                 <<Message("user", IF call.answer = "" THEN "(no answer yet)"
                                   ELSE call.answer),
                   Message("tutor", data.replyText)>>
         IN  /\ home' = [home EXCEPT
                           !.chat = newChat,
                           !.scoreCorrect = @ + data.scoreUpdate.correctDelta,
                           !.scoreTotal = @ + data.scoreUpdate.totalDelta,
                           !.questionNumber = @ + 1,
                           !.currentQuestion = data.nextQuestion,
                           !.answer = "",
                           !.loading = FALSE]
             /\ tutorCalls' = tutorCalls \ {call}
    /\ UNCHANGED afterReset
    /\ UNCHANGED <<normVars, sanVars, srvVars, cliVars>>

\* callTutor after its await, the response not ok or the fetch rejected:
\* the alert, then finally
TutorFails ==
    /\ \E call \in tutorCalls :
         /\ home' = [home EXCEPT !.loading = FALSE]
         /\ tutorCalls' = tutorCalls \ {call}
    /\ UNCHANGED afterReset
    /\ UNCHANGED <<normVars, sanVars, srvVars, cliVars>>

\* the Reset session button
handleResetSession ==
    /\ home' = SessionReset(home)
    /\ afterReset' = TRUE
    /\ UNCHANGED tutorCalls
    /\ UNCHANGED <<normVars, sanVars, srvVars, cliVars>>

\* the language select, and the effect on [language, level] that follows it
SetLanguage ==
    /\ \E l \in TutorLanguages \ {home.language} :
         home' = SessionReset([home EXCEPT !.language = l])
    /\ afterReset' = TRUE
    /\ UNCHANGED tutorCalls
    /\ UNCHANGED <<normVars, sanVars, srvVars, cliVars>>

\* the level select, and the effect on [language, level] that follows it
SetLevel ==
    /\ \E l \in TutorLevels \ {home.level} :
         home' = SessionReset([home EXCEPT !.level = l])
    /\ afterReset' = TRUE
    /\ UNCHANGED tutorCalls
    /\ UNCHANGED <<normVars, sanVars, srvVars, cliVars>>

\* the textarea
SetAnswer ==
    /\ \E a \in AnswerInputs \ {home.answer} : home' = [home EXCEPT !.answer = a]
    /\ UNCHANGED <<tutorCalls, afterReset>>
    /\ UNCHANGED <<normVars, sanVars, srvVars, cliVars>>

\* an option button of the current question
handleOptionClick ==
    /\ home.currentQuestion # NoQuestion
    /\ home.currentQuestion.mode = "mcq"
    /\ \E i \in 1..Len(home.currentQuestion.options) :
         home' = [home EXCEPT !.answer = home.currentQuestion.options[i]]
    /\ UNCHANGED <<tutorCalls, afterReset>>
    /\ UNCHANGED <<normVars, sanVars, srvVars, cliVars>>

(***************************************************************************)
(* The values of the variables a specification does not use                *)
(***************************************************************************)
TutIdle ==
    /\ home = HomeInitial
    /\ tutorCalls = {}
    /\ afterReset = FALSE

NormIdle ==
    /\ normPc = "off"
    /\ normAnswer = <<>>
    /\ normCanonical = <<>>
    /\ normIsRight = FALSE

SanIdle ==
    /\ sanPc = "off"
    /\ sanText = <<>>
    /\ sanCount = 0
    /\ sanResult = Thrown("")
    /\ sanClient = <<>>

CliIdle ==
    /\ screen = "welcome"
    /\ username = <<>>
    /\ selectedLanguage = NULL
    /\ selectedLevel = NULL
    /\ skillBand = 1
    /\ questions = <<>>
    /\ currentQuestionIndex = 0
    /\ score = 0
    /\ answers = <<>>
    /\ userAnswer = <<>>
    /\ showResult = FALSE
    /\ isCorrect = FALSE
    /\ loading = FALSE
    /\ fetchError = NULL
    /\ sessionReports = <<>>
    /\ fetchPc = "none"
    /\ fetchBody = BodyOfKind("none")

SrvIdle ==
    /\ srvPc = "off"
    /\ srvBody = BodyOfKind("none")
    /\ apiKey = FALSE
    /\ retryCount = 0
    /\ httpCalls = 0
    /\ srvLog = <<>>
    /\ srvResponse = NoResponse

(***************************************************************************)
(* Specification SpecNorm: the judgement of handleAnswer on free inputs    *)
(***************************************************************************)
NormChars == {"a", "A", "!", " "}

RECURSIVE StringsUpTo(_, _)
StringsUpTo(chars, n) ==
    IF n = 0 THEN {<<>>}
    ELSE LET shorter == StringsUpTo(chars, n - 1)
         IN  shorter \cup {Append(s, c) : s \in shorter, c \in chars}

NormInputs == StringsUpTo(NormChars, MaxStrLen)

InitNorm ==
    /\ normPc = "input"
    /\ normAnswer \in NormInputs
    /\ normCanonical \in NormInputs
    /\ normIsRight = FALSE
    /\ SanIdle
    /\ SrvIdle
    /\ CliIdle
    /\ TutIdle

\* the first three statements of handleAnswer, on the pair drawn by InitNorm
JudgeAnswer ==
    /\ normPc = "input"
    /\ normPc' = "judged"
    /\ normIsRight' = IsRight(normAnswer, normCanonical)
    /\ UNCHANGED <<normAnswer, normCanonical>>
    /\ UNCHANGED <<sanVars, srvVars, cliVars, tutVars>>

NextNorm == JudgeAnswer

SpecNorm == InitNorm /\ [][NextNorm]_vars

(***************************************************************************)
(* Specification SpecSan: parseQuestionsFromText on free raw texts, and    *)
(* the client's pass over what it returned                                 *)
(***************************************************************************)
Str(c) == JStr(<<c>>)

\* option texts other than the answer "a"
OptionPool == <<Str("b"), Str("c"), Str("d"), Str("e"), Str("f"), Str("g"), Str("h")>>

TypeTags == {"", "multiple-choice", "type-answer", "fill-in-the-blanks", "essay"}

RawOptionArrays ==
    {JArray(SubSeq(OptionPool, 1, n)) : n \in 0..MaxRawOptions}
    \cup {JArray(<<Str("a")>> \o SubSeq(OptionPool, 1, n)) : n \in 0..(MaxRawOptions - 1)}
    \cup {JArray(<<JStr(<<" ", "a">>), JStr(<<"b", " ">>), JStr(<<" ">>), Str("b")>>),
          JArray(<<JNum(<<"1">>), Str("1")>>),
          JArray(<<JStr(<<>>), JStr(<<" ">>)>>),
          JNoArray}

\* items with a usable question and answer and every option array and tag
RichItems ==
    {RawItem(Str("q"), JStr(<<" ", "a">>), o, ty, "en-to-target", "en", JUndefined) :
        o \in RawOptionArrays, ty \in TypeTags}

ValidItem == RawItem(Str("q"), Str("a"), JNoArray, "type-answer",
                     "target-to-en", "target", JStr(<<" ", "e">>))
ChoiceItem == RawItem(JStr(<<"q", " ">>), Str("a"), JArray(<<Str("b")>>), "",
                      "sideways", "en", JStr(<<" ">>))

\* items of the longer arrays: usable ones and the kinds the loop skips
PlainItems ==
    {ValidItem, ChoiceItem,
     RawItem(Str("q"), JStr(<<" ">>), JNoArray, "", "", "", JUndefined),
     RawItem(JUndefined, Str("a"), JNoArray, "", "", "", JUndefined),
     RawItem(JNum(<<"1">>), Str("a"), JNoArray, "", "", "", JUndefined),
     NonObject("null")}

RECURSIVE SeqsUpTo(_, _)
SeqsUpTo(S, n) ==
    IF n = 0 THEN {<<>>}
    ELSE LET shorter == SeqsUpTo(S, n - 1)
         IN  shorter \cup {Append(s, x) : s \in shorter, x \in S}

BareArray(items) ==
    <<Tok("[")>> \o [i \in 1..Len(items) |-> Val(items[i])] \o <<Tok("]")>>

\* commentary, an opening ```json fence, the array, a closing fence, commentary
Fenced(text) ==
    <<Tok("prose"), Tok("ws"), Tok("fenceJson"), Tok("ws")>> \o text
        \o <<Tok("ws"), Tok("fence"), Tok("ws"), Tok("prose")>>

PlainArrays == SeqsUpTo(PlainItems, MaxItems)

\* one item each, with every option array and type tag
RichTexts == {BareArray(<<i>>) : i \in RichItems}

SanTexts ==
    {BareArray(items) : items \in PlainArrays}
    \cup {Fenced(BareArray(items)) : items \in PlainArrays}
    \cup {<<Tok("object")>>, <<Tok("prose")>>, <<Tok("[")>>, <<Tok("]"), Tok("[")>>,
          <<Tok("[")>> \o BareArray(<<ValidItem>>),
          <<Tok("["), Tok("prose"), Tok("]"), Tok("ws")>> \o BareArray(<<ValidItem>>)}

\* one item each, with every direction, question language and explanation
RawDirections == {"en-to-target", "target-to-en", "target-to-target", "sideways", ""}
RawQuestionLanguages == {"target", "en", "fr"}
RawExplanations == {JUndefined, JStr(<<" ">>), JStr(<<" ", "e">>), JNum(<<"1">>)}

FieldItems ==
    {RawItem(Str("q"), Str("a"), o, ty, d, ql, e) :
        o \in {JNoArray, JArray(<<Str("b")>>)}, ty \in {"", "fill-in-the-blanks"},
        d \in RawDirections, ql \in RawQuestionLanguages, e \in RawExplanations}

FieldTexts == {BareArray(<<i>>) : i \in FieldItems}

\* the count values POST hands over: any number, the client's 6 among them
SanCounts == ((-1)..(MaxItems + 1)) \cup {QUESTIONS_PER_BAND}

InitSan ==
    /\ sanPc = "input"
    /\ \/ sanText \in RichTexts /\ sanCount = QUESTIONS_PER_BAND
       \/ sanText \in FieldTexts /\ sanCount = QUESTIONS_PER_BAND
       \/ sanText \in SanTexts /\ sanCount \in SanCounts
    /\ sanResult = Thrown("")
    /\ sanClient = <<>>
    /\ NormIdle
    /\ SrvIdle
    /\ CliIdle
    /\ TutIdle

\* one call parseQuestionsFromText(sanText, sanCount)
SanParse ==
    /\ sanPc = "input"
    /\ \E r \in parseQuestionsFromText(sanText, sanCount) :
         /\ sanResult' = r
         /\ sanPc' = IF r.status = "ok" THEN "returned" ELSE "thrown"
    /\ UNCHANGED <<sanText, sanCount, sanClient>>
    /\ UNCHANGED <<normVars, srvVars, cliVars, tutVars>>

\* the returned list travels to the client as the response body and passes
\* through the filter/map/slice of generateQuestions
SanClientPass ==
    /\ sanPc = "returned"
    /\ \E l \in ClientSanitized(sanResult.questions) :
         /\ sanClient' = l
         /\ sanPc' = "stored"
    /\ UNCHANGED <<sanText, sanCount, sanResult>>
    /\ UNCHANGED <<normVars, srvVars, cliVars, tutVars>>

NextSan == SanParse \/ SanClientPass

SpecSan == InitSan /\ [][NextSan]_vars

(***************************************************************************)
(* Specification SpecServer: one request with a free body against a free   *)
(* provider                                                                *)
(***************************************************************************)
Languages == {"French", "German", "Spanish", "Italian"}
Levels == {"Basic", "Moderate", "Advanced"}

BodyTexts == {BUndefined, BStr(<<>>), BStr(<<"French">>)}
BodyLevels == {BUndefined, BStr(<<"Basic">>)}
BodyBands ==
    {BUndefined, BOther("boolean"), BNum(2), BStr(<<"2">>), BStr(<<>>), BStr(<<"x">>)}
BodyCounts ==
    {BUndefined, BOther("boolean"), BStr(<<"x">>), BStr(<<>>), BStr(<<" ", "1">>),
     BStr(<<"-", "1">>)}
    \cup {BNum(n) : n \in 0..MaxItems} \cup {BNum(QUESTIONS_PER_BAND)}

RequestBodies ==
    {Body(l, v, b, c) : l \in BodyTexts, v \in BodyLevels, b \in BodyBands, c \in BodyCounts}
    \cup {BodyOfKind("null"), BodyOfKind("invalid")}

\* statuses of the provider that are not OK
ErrorStatuses == {429, 503, 500, 401}

\* message contents of the provider
ProviderTexts ==
    {<<>>, <<Tok("ws")>>, <<Tok("[")>>, <<Tok("prose")>>, <<Tok("object")>>,
     BareArray(<<>>), BareArray(<<NonObject("null")>>),
     BareArray(<<ValidItem>>),
     Fenced(BareArray(<<ValidItem, ChoiceItem>>))}

InitServer ==
    /\ srvPc = "idle"
    /\ srvBody = BodyOfKind("none")
    /\ apiKey \in BOOLEAN
    /\ retryCount = 0
    /\ httpCalls = 0
    /\ srvLog = <<>>
    /\ srvResponse = NoResponse
    /\ NormIdle
    /\ SanIdle
    /\ CliIdle
    /\ TutIdle

ReceiveRequest ==
    /\ \E body \in RequestBodies : POST(body)
    /\ UNCHANGED <<normVars, sanVars, cliVars, tutVars>>

ProviderAnswersError ==
    /\ \E status \in ErrorStatuses : ProviderError(status)
    /\ UNCHANGED <<normVars, sanVars, cliVars, tutVars>>

ProviderAnswersText ==
    /\ \E text \in ProviderTexts : ProviderText(text)
    /\ UNCHANGED <<normVars, sanVars, cliVars, tutVars>>

ProviderFails ==
    /\ ProviderUnreachable
    /\ UNCHANGED <<normVars, sanVars, cliVars, tutVars>>

NextServer ==
    \/ ReceiveRequest
    \/ ProviderAnswersError
    \/ ProviderAnswersText
    \/ ProviderFails

SpecServer == InitServer /\ [][NextServer]_vars

(***************************************************************************)
(* Specification Spec: the quiz client against the question endpoint and   *)
(* the provider                                                            *)
(***************************************************************************)
\* what the provider answers to the requests of a session
QuizErrorStatuses == {429, 500}
\* message contents: blank, no JSON at all, an array of two usable items
QuizProviderTexts ==
    {<<Tok("ws")>>, <<Tok("prose")>>, BareArray(<<ValidItem, ChoiceItem>>)}

\* the endpoint receives the request
ServerReceives ==
    /\ fetchPc = "sent"
    /\ POST(fetchBody)
    /\ UNCHANGED <<normVars, sanVars, cliVars, tutVars>>

ServerProviderError ==
    /\ fetchPc = "sent"
    /\ \E status \in QuizErrorStatuses : ProviderError(status)
    /\ UNCHANGED <<normVars, sanVars, cliVars, tutVars>>

ServerProviderText ==
    /\ fetchPc = "sent"
    /\ \E text \in QuizProviderTexts : ProviderText(text)
    /\ UNCHANGED <<normVars, sanVars, cliVars, tutVars>>

ServerProviderUnreachable ==
    /\ fetchPc = "sent"
    /\ ProviderUnreachable
    /\ UNCHANGED <<normVars, sanVars, cliVars, tutVars>>

\* the response arrives: lines 171-234 and the finally block
FetchResponds ==
    /\ fetchPc = "sent"
    /\ srvPc = "done"
    /\ ReleaseRequest
    /\ IF srvResponse.status # 200
       THEN FetchFailed(srvResponse.error)
       ELSE IF Len(srvResponse.questions) = 0
       THEN FetchFailed(MsgNoQuestions)
       ELSE \E sanitized \in ClientSanitized(srvResponse.questions) :
              IF Len(sanitized) = 0
              THEN FetchFailed(MsgNoUsable)
              ELSE /\ questions' = sanitized
                   /\ loading' = FALSE
                   /\ UNCHANGED fetchError
    /\ UNCHANGED <<screen, username, selectedLanguage, selectedLevel, skillBand,
                   currentQuestionIndex, score, answers, userAnswer, showResult,
                   isCorrect, sessionReports>>
    /\ UNCHANGED <<normVars, sanVars, tutVars>>

\* the 20 s timer fires before the response has arrived: controller.abort()
\* makes fetch reject (line 155); whatever the endpoint still does for this
\* request no longer reaches the client
FetchTimeout ==
    /\ fetchPc = "sent"
    /\ ReleaseRequest
    /\ FetchFailed(MsgAborted)
    /\ UNCHANGED <<screen, username, selectedLanguage, selectedLevel, skillBand,
                   currentQuestionIndex, score, answers, userAnswer, showResult,
                   isCorrect, sessionReports>>
    /\ UNCHANGED <<normVars, sanVars, tutVars>>

\* fetch rejects: the endpoint cannot be reached
FetchNetworkError ==
    /\ fetchPc = "sent"
    /\ srvPc = "idle"
    /\ ReleaseRequest
    /\ FetchFailed(MsgFailedToFetch)
    /\ UNCHANGED <<screen, username, selectedLanguage, selectedLevel, skillBand,
                   currentQuestionIndex, score, answers, userAnswer, showResult,
                   isCorrect, sessionReports>>
    /\ UNCHANGED <<normVars, sanVars, tutVars>>

Init ==
    /\ CliIdle
    /\ TutIdle
    /\ srvPc = "off"
    /\ srvBody = BodyOfKind("none")
    /\ apiKey \in BOOLEAN
    /\ retryCount = 0
    /\ httpCalls = 0
    /\ srvLog = <<>>
    /\ srvResponse = NoResponse
    /\ NormIdle
    /\ SanIdle

Next ==
    \/ SetUsername
    \/ GetStarted
    \/ ChooseLanguage
    \/ ChooseLevel
    \/ SelectBand
    \/ StartThisBand
    \/ BackToLevels
    \/ ClickOption
    \/ TypeAnswer
    \/ CheckAnswer
    \/ handleNext
    \/ handlePrevious
    \/ resetBand
    \/ goToLevelSelection
    \/ resetLanguageFlow
    \/ resetSession
    \/ goToNextBand
    \/ handleDownloadPdf
    \/ ServerReceives
    \/ ServerProviderError
    \/ ServerProviderText
    \/ ServerProviderUnreachable
    \/ FetchResponds
    \/ FetchTimeout
    \/ FetchNetworkError

Spec == Init /\ [][Next]_vars

\* the 20 s timer of generateQuestions fires unless the fetch has settled
\* before (line 155)
SpecLive == Init /\ [][Next]_vars /\ WF_vars(FetchTimeout)

\* The sessions that go through bands of more than one level: the learner
\* starts bands, passes their questions, changes the level from the report
\* and exports the document.
NextLevels ==
    \/ SetUsername
    \/ GetStarted
    \/ ChooseLanguage
    \/ ChooseAnyLevel
    \/ SelectBand
    \/ StartThisBand
    \/ handleNext
    \/ goToLevelSelection
    \/ handleDownloadPdf
    \/ ServerReceives
    \/ ServerProviderText
    \/ FetchResponds

SpecLevels == Init /\ [][NextLevels]_vars

\* The chat tutor page on its own
InitTutor ==
    /\ TutIdle
    /\ NormIdle
    /\ SanIdle
    /\ SrvIdle
    /\ CliIdle

NextTutor ==
    \/ handleAskTutor
    \/ TutorResponds
    \/ TutorFails
    \/ handleResetSession
    \/ SetLanguage
    \/ SetLevel
    \/ SetAnswer
    \/ handleOptionClick

SpecTutor == InitTutor /\ [][NextTutor]_vars

(***************************************************************************)
(* C4, C5, C6, C7                                                          *)
(***************************************************************************)
TransientAt(i) == srvLog[i].outcome = "http" /\ Transient(srvLog[i].status)

\* the i-th provider call was answered and another call followed it
RetriedAfter(i) == i < httpCalls

FailedWith(msg) == srvPc = "done" /\ srvResponse = Response(500, msg, <<>>)

\* C4: a 429 or 503 answer is retried at most 2 additional times, so at
\* most 3 calls are made when every answer is 429/503, and the request then
\* fails with the HTTP error; any other non-OK status fails the request at
\* once, with no further call.
C4_TransientRetriedAtMostTwice ==
    /\ Cardinality({i \in 1..Len(srvLog) : TransientAt(i) /\ RetriedAfter(i)}) <= 2
    /\ (\A i \in 1..Len(srvLog) : TransientAt(i)) =>
          /\ httpCalls <= 3
          /\ Len(srvLog) = 3 => FailedWith(MsgHttp(srvLog[3].status))
    /\ \A i \in 1..Len(srvLog) :
          (srvLog[i].outcome = "http" /\ ~TransientAt(i)) =>
              /\ ~RetriedAfter(i)
              /\ i = Len(srvLog)
              /\ FailedWith(MsgHttp(srvLog[i].status))

\* three answers 429/503 in a row, after which the request has failed
C4_Witness ==
    /\ Len(srvLog) = 3
    /\ \A i \in 1..3 : TransientAt(i)
    /\ srvPc = "done"

JsonFailureAt(i) == srvLog[i].outcome = MsgInvalidJSON

\* C5: the first JSON-parsing failure of a request is followed by one more
\* call, however many 429/503 retries were used before it; the second one
\* is propagated.
C5_JsonRetriedExactlyOnce ==
    \A i \in 1..Len(srvLog) :
        JsonFailureAt(i) =>
            IF \E j \in 1..(i - 1) : JsonFailureAt(j)
            THEN ~RetriedAfter(i) /\ FailedWith(MsgInvalidJSON)
            ELSE RetriedAfter(i)

Missing(v) == v.k = "undefined"

\* a text Number() converts to a number: blank, or an optionally signed
\* run of digits, white space around it ignored
IsNumericText(s) ==
    LET t == SelectSeq(s, LAMBDA c : c \notin Whitespace)
        d == IF t # <<>> /\ t[1] = "-" THEN Tail(t) ELSE t
    IN  t = <<>> \/ (d # <<>> /\ \A i \in 1..Len(d) : IsDigit(d[i]))

NonNumeric(v) == v.k # "number" /\ ~(v.k = "string" /\ IsNumericText(v.s))

Answered400 ==
    /\ srvPc = "done"
    /\ srvResponse.status = 400
    /\ srvResponse.error # ""
    /\ httpCalls = 0

\* C6 as stated: 400 and no provider call whenever language, level, band or
\* count is missing, or band or count is non-numeric.
C6_MissingOrNonNumericIs400 ==
    (/\ srvPc \in {"http", "done"}
     /\ srvBody.k = "object"
     /\ \/ Missing(srvBody.language) \/ Missing(srvBody.level)
        \/ Missing(srvBody.band) \/ Missing(srvBody.count)
        \/ NonNumeric(srvBody.band) \/ NonNumeric(srvBody.count))
    => Answered400

\* C6 amended: 400 and no provider call whenever language or level is
\* missing or empty, band is neither a number nor a numeric text, or count
\* is a text that is not numeric. (A count that is missing, or neither number
\* nor text, is replaced by 6.)
C6_Amended ==
    (/\ srvPc \in {"http", "done"}
     /\ srvBody.k = "object"
     /\ \/ Missing(srvBody.language) \/ srvBody.language = BStr(<<>>)
        \/ Missing(srvBody.level) \/ srvBody.level = BStr(<<>>)
        \/ NonNumeric(srvBody.band)
        \/ (srvBody.count.k = "string" /\ ~IsNumericText(srvBody.count.s)))
    => Answered400

\* a request that is complete but for a count that is a non-numeric text,
\* answered 400
C6_Witness ==
    /\ Answered400
    /\ srvBody.k = "object"
    /\ ~Missing(srvBody.language) /\ ~Missing(srvBody.level)
    /\ srvBody.band.k = "number"
    /\ srvBody.count = BStr(<<"x">>)

\* C7: when the request is answered with questions, there are at least 1 and
\* at most count of them, count being the value POST derived from the body.
C7_ReturnedWithinCount ==
    (srvPc = "done" /\ srvResponse.status = 200) =>
        /\ Len(srvResponse.questions) >= 1
        /\ Len(srvResponse.questions) <= CountOf(srvBody).n


(***************************************************************************)
(* C3                                                                      *)
(***************************************************************************)
\* the words of a string: its maximal runs of non-whitespace characters
RECURSIVE Words(_, _)
Words(s, cur) ==
    IF s = <<>> THEN (IF cur = <<>> THEN <<>> ELSE <<cur>>)
    ELSE IF Head(s) \in Whitespace
         THEN (IF cur = <<>> THEN <<>> ELSE <<cur>>) \o Words(Tail(s), <<>>)
         ELSE Words(Tail(s), Append(cur, Head(s)))

\* two strings differ only in letter case, in the punctuation characters
\* and in the amount of whitespace
DifferOnlyInCasePunctWs(s, t) ==
    Words(StripPunctuation(ToLowerCase(s)), <<>>)
        = Words(StripPunctuation(ToLowerCase(t)), <<>>)

\* C3: a submitted answer is judged correct exactly when it differs from the
\* canonical answer only in letter case, in the characters . , ! ? ; : and
\* in the amount of whitespace.
C3_JudgedByFoldedEquality ==
    normPc = "judged" =>
        (normIsRight <=> DifferOnlyInCasePunctWs(normAnswer, normCanonical))

(***************************************************************************)
(* C1, C8                                                                  *)
(***************************************************************************)
WithOptions(q) == q.type \in {"multiple-choice", "fill-in-the-blanks"}

AnswerExactlyOnce(list) ==
    \A i \in 1..Len(list) :
        WithOptions(list[i]) =>
            Occurrences(list[i].options, list[i].answer) = 1

\* C1: every multiple-choice or fill-in-the-blanks question returned by
\* parseQuestionsFromText, and every one the client stores after its own
\* pass, has its answer among its options exactly once.
C1_OptionsContainAnswerOnce ==
    /\ sanPc \in {"returned", "stored"} => AnswerExactlyOnce(sanResult.questions)
    /\ sanPc = "stored" => AnswerExactlyOnce(sanClient)

OptionsWellFormed(q) ==
    /\ q.type = "multiple-choice" => Len(q.options) \in 2..5
    /\ q.type = "fill-in-the-blanks" => Len(q.options) \in 2..4
    /\ q.type = "type-answer" => ~q.hasOptions /\ q.options = <<>>
    /\ \A i \in 1..Len(q.options) : q.options[i] # <<>>
    /\ \A i, j \in 1..Len(q.options) : i # j => q.options[i] # q.options[j]

HasRecord(arr, index) == index + 1 <= Len(arr) /\ arr[index + 1].present

\* a step inside one run of a band: a question is shown before and after it
\* (startBand shows the loading view, finishing shows the report)
WithinRun == QuizView = "question" /\ QuizView' = "question"

\* C2: within one run of a band, an AnswerRecord that exists is never changed
\* and the score is not incremented again for a question that already has
\* one, whatever Next, Previous and answer steps are taken
C2_RecordsImmutable ==
    [][WithinRun =>
        /\ \A index \in 0..(Len(answers) - 1) :
              HasRecord(answers, index) =>
                  /\ HasRecord(answers', index)
                  /\ answers'[index + 1] = answers[index + 1]
        /\ score' > score => ~HasRecord(answers, currentQuestionIndex)]_vars

SameTriple(r, t) == r.band = t.band /\ r.level = t.level /\ r.language = t.language

OneReportPerTriple(reports) ==
    \A i, j \in 1..Len(reports) : SameTriple(reports[i], reports[j]) => i = j

\* the step of handleNext that finishes the band
Finishing == screen = "quiz" /\ screen' = "report"

\* C9: sessionReports never holds two reports of one (band, level, language)
\* triple; finishing a band stores its report as the only one of its triple
\* and leaves the reports of all other triples as they were
C9_OneReportPerTriple ==
    /\ OneReportPerTriple(sessionReports)
    /\ [][/\ OneReportPerTriple(sessionReports')
          /\ Finishing =>
               LET bandEntry == BandEntry(skillBand, selectedLevel, selectedLanguage,
                                          Answered(answers), score, Len(questions))
                   others(reports) == SelectSeq(reports,
                                                LAMBDA r : ~SameTriple(r, bandEntry))
               IN  /\ Includes(sessionReports', bandEntry)
                   /\ others(sessionReports') = others(sessionReports)]_vars

\* a band was finished a second time while the report of another band was
\* kept: band 5 is entered from the report of band 4 only, so the report of
\* band 4 that stands behind that of band 5 has replaced an earlier one
C9_Witness ==
    /\ screen = "report"
    /\ Len(sessionReports) = 2
    /\ sessionReports[1].band = 5
    /\ sessionReports[2].band = 4
    /\ skillBand = 4

\* C10: whenever the quiz shows its error view after a failed fetch, retry
\* the band, change level and change language are all on offer
C10_ErrorViewOffersAll ==
    QuizView = "error" /\ fetchError # NULL =>
        CanRetryBand /\ CanChangeLevel /\ CanChangeLanguage

(***************************************************************************)
(* C11, C12                                                                *)
(***************************************************************************)
\* C11: a step that leaves the report screen leads to band-select, to the
\* quiz or to welcome, and to no other screen
C11_ReportLeadsToBandQuizWelcome ==
    [][screen = "report" /\ screen' # "report" =>
          screen' \in {"band", "quiz", "welcome"}]_vars

\* the provider's last answer for the request at the endpoint was blank text
BlankTextAnswered == srvLog # <<>> /\ srvLog[Len(srvLog)].outcome = MsgEmpty

\* C12: blank text of the provider makes POST answer 500 with an error body,
\* never 200, and the client that receives this answer shows the error view
\* with an empty question list
C12_BlankTextIs500AndErrorView ==
    /\ BlankTextAnswered =>
          /\ srvPc = "done"
          /\ srvResponse.status = 500
          /\ srvResponse.error = MsgEmpty
          /\ srvResponse.questions = <<>>
    /\ fetchError = MsgEmpty =>
          /\ questions = <<>>
          /\ QuizView = "error"

\* the client shows the error view for a blank provider text, in a session
\* that has finished a band before
C12_Witness ==
    /\ fetchError = MsgEmpty
    /\ QuizView = "error"
    /\ sessionReports # <<>>

(***************************************************************************)
(* C13, C14                                                                *)
(***************************************************************************)
\* a step that puts a request on the wire
StartsFetch == fetchPc' = "sent" /\ srvPc' = "idle" /\ srvPc # "idle"

\* the response to the pending request has arrived with status 200
UsableResponse ==
    /\ fetchPc = "sent"
    /\ srvPc = "done"
    /\ srvResponse.status = 200
    /\ srvBody = fetchBody

\* C13: after a failed fetch the question list is empty; startBand leads to
\* the loading view; a question comes into view only as part of the batch
\* received for the request of the latest startBand, and the list shown is
\* not exchanged while its questions are in view
C13_NoStaleQuestions ==
    /\ fetchError # NULL => questions = <<>>
    /\ QuizView = "error" => questions = <<>>
    /\ [][/\ StartsFetch => QuizView' = "loading"
          /\ (QuizView # "question" /\ QuizView' = "question") =>
                /\ QuizView = "loading"
                /\ UsableResponse
                /\ fetchBody = RequestBody(selectedLanguage, selectedLevel, skillBand)
                /\ questions' \in ClientSanitized(srvResponse.questions)
          /\ (QuizView = "question" /\ QuizView' = "question") =>
                questions' = questions]_vars

\* a fetch has timed out in a session that had shown a batch before (a band
\* was finished): the error view is shown and no question is stored
C13_Witness ==
    /\ QuizView = "error"
    /\ fetchError = MsgAborted
    /\ sessionReports # <<>>
    /\ questions = <<>>

\* C14: a fetch is pending exactly while the loading view is shown; a fetch
\* is started only when none is pending; the response that arrives answers
\* the request of the band that is loading
C14_OneFetchInFlight ==
    /\ (fetchPc = "sent") = (QuizView = "loading")
    /\ (fetchPc = "sent") = loading
    /\ [][/\ StartsFetch => fetchPc = "none"
          /\ (fetchPc = "sent" /\ fetchPc' = "none" /\ srvPc = "done") =>
                /\ srvBody = fetchBody
                /\ fetchBody.band = BNum(skillBand)
                /\ fetchBody = RequestBody(selectedLanguage, selectedLevel, skillBand)]_vars

\* the retried provider call of a request is pending while the loading view
\* is shown, in a session that has a report: the report's retry and next
\* band buttons are not on offer
C14_Witness ==
    /\ QuizView = "loading"
    /\ srvPc = "http"
    /\ retryCount = 1
    /\ sessionReports # <<>>
    /\ ~CanRetryBand
    /\ ~CanGoToNextBand

(***************************************************************************)
(* C15                                                                     *)
(***************************************************************************)
\* the loading view has ended with questions or with the error view
FetchSettled ==
    /\ ~loading
    /\ fetchPc = "none"
    /\ screen = "quiz"
    /\ \/ questions # <<>> /\ fetchError = NULL
       \/ questions = <<>> /\ fetchError # NULL /\ QuizView = "error"

\* a step that enters the quiz screen, or starts a band on it again
EntersQuiz == (screen' = "quiz" /\ screen # "quiz") \/ (loading' /\ ~loading)

QuizStateDiscarded ==
    /\ questions = <<>>
    /\ answers = <<>>
    /\ score = 0
    /\ currentQuestionIndex = 0

\* the language screen is entered from the welcome screen by "Get started"
\* and from everywhere else by resetLanguageFlow only
ResetLanguageFlowStep == screen' = "language" /\ screen \notin {"welcome", "language"}

\* the level screen is entered from the quiz and the report by
\* goToLevelSelection only
GoToLevelSelectionStep == screen' = "level" /\ screen \in {"quiz", "report"}

\* C16: resetLanguageFlow discards the quiz state in progress and empties
\* the session history; goToLevelSelection discards the same quiz state and
\* leaves the session history and the selected language as they were
C16_ResetsDiscardQuizState ==
    [][/\ ResetLanguageFlowStep => QuizStateDiscarded' /\ sessionReports' = <<>>
       /\ GoToLevelSelectionStep =>
             /\ QuizStateDiscarded'
             /\ sessionReports' = sessionReports
             /\ selectedLanguage' = selectedLanguage]_vars

\* goToLevelSelection has acted after a finished band: the level is
\* unselected again while the history still holds the band's report
C16_Witness ==
    /\ screen = "level"
    /\ selectedLevel = NULL
    /\ selectedLanguage # NULL
    /\ sessionReports # <<>>
    /\ QuizStateDiscarded

\* C17: resetSession, the only way back to the welcome screen, leaves every
\* piece of client state at its initial value
C17_ResetSessionRestoresInit ==
    [][screen' = "welcome" /\ screen # "welcome" => CliIdle']_vars

\* resetSession is offered (error view) in a session that has a username, a
\* language, a level, a fetch error and a report in its history
C17_Witness ==
    /\ CanResetSession
    /\ username # <<>>
    /\ selectedLevel # NULL
    /\ skillBand # 1
    /\ fetchError # NULL
    /\ sessionReports # <<>>

\* ---------------------------------------------------------------------
\* C18, C19: one submission per visit, and the way back
\* ---------------------------------------------------------------------

\* a step that stays on the same question of the same batch
SameVisit ==
    /\ WithinRun
    /\ currentQuestionIndex' = currentQuestionIndex

\* C18: a submission shows the result, and while the result of a visit is
\* shown no further submission happens in that visit: the answer records
\* and the score stay as they are, for every question type
C18_OneSubmissionPerVisit ==
    [][/\ (WithinRun /\ answers' # answers) => (~showResult /\ showResult')
       /\ (SameVisit /\ showResult) =>
             (answers' = answers /\ score' = score /\ showResult')]_vars

\* the result of a typed answer is shown while the text is still in the
\* input: the Check button is gone and Enter is ignored
C18_Witness ==
    /\ QuizView = "question"
    /\ showResult
    /\ currentQ.type = "type-answer"
    /\ Trim(userAnswer) # <<>>
    /\ HasRecord(answers, currentQuestionIndex)

\* the text stored for question i (0-based), empty when it has no record
StoredText(i) ==
    IF HasRecord(answers, i) THEN answers[i + 1].userAnswer ELSE <<>>

\* within a batch the index goes down by handlePrevious only
GoesBack == WithinRun /\ currentQuestionIndex' < currentQuestionIndex

\* C19: handlePrevious does nothing at the first question; elsewhere it
\* lowers the index by one, puts the stored text of that question in the
\* input (empty when there is none), and leaves the score, the records, the
\* questions and the session history as they were
C19_PreviousRestoresStoredText ==
    /\ [](currentQuestionIndex >= 0)
    /\ [][GoesBack =>
            /\ currentQuestionIndex # 0
            /\ currentQuestionIndex' = currentQuestionIndex - 1
            /\ userAnswer' = StoredText(currentQuestionIndex - 1)
            /\ UNCHANGED <<score, answers, questions, sessionReports>>]_vars

\* back on the first question after answering it by typing: its result is
\* hidden and the stored text is in the input
C19_Witness ==
    /\ QuizView = "question"
    /\ currentQuestionIndex = 0
    /\ ~showResult
    /\ HasRecord(answers, 0)
    /\ userAnswer # <<>>
    /\ userAnswer = answers[1].userAnswer

\* ---------------------------------------------------------------------
\* C20: failures that are not retried
\* ---------------------------------------------------------------------

NotRetriedOutcomes == {MsgNotArray, MsgNoValid, MsgEmpty}

\* C20: a provider answer that is blank, or whose text the sanitizer rejects
\* for another reason than malformed JSON, is the last provider call of the
\* request, and the request fails with that message
C20_OnlyMalformedJsonRetried ==
    \A i \in 1..Len(srvLog) :
        srvLog[i].outcome \in NotRetriedOutcomes =>
            /\ i = Len(srvLog)
            /\ httpCalls = Len(srvLog)
            /\ srvPc = "done" => FailedWith(srvLog[i].outcome)

\* after one retry for malformed JSON the provider answered with a JSON
\* object, and the request failed on the second call
C20_Witness ==
    /\ srvPc = "done"
    /\ Len(srvLog) = 2
    /\ srvLog[1].outcome = MsgInvalidJSON
    /\ srvLog[2].outcome = MsgNotArray
    /\ FailedWith(MsgNotArray)

\* ---------------------------------------------------------------------
\* C21: the missing credential
\* ---------------------------------------------------------------------

\* POST has read a body whose parameters pass its test (lines 483-508)
ParametersAccepted ==
    /\ srvBody.k \notin {"none", "null", "invalid"}
    /\ ~InvalidParameters(srvBody)

\* C21: without the credential no provider call is made, whatever the
\* request, and a request that reaches generateWithGroq is answered 500
\* with the message that names GROQ_API_KEY
C21_MissingKeyFailsBeforeAnyCall ==
    ~apiKey =>
        /\ httpCalls = 0
        /\ srvLog = <<>>
        /\ retryCount = 0
        /\ srvPc \in {"idle", "done"}
        /\ (srvPc = "done" /\ ParametersAccepted) => FailedWith(MsgNoKey)

\* a request for 6 questions was answered 500 for the missing credential
C21_Witness ==
    /\ ~apiKey
    /\ ParametersAccepted
    /\ CountOf(srvBody).n = QUESTIONS_PER_BAND
    /\ FailedWith(MsgNoKey)
    /\ httpCalls = 0

\* ---------------------------------------------------------------------
\* C22: the skill band stays within 1..5
\* ---------------------------------------------------------------------

Bands == 1..5

\* C22: the skill band is always one of 1..5 and so is the band of every
\* request on the wire; a step from the report to the quiz that changes the
\* band is taken below band 5 only and starts the fetch of the next band
C22_BandWithinOneToFive ==
    /\ [](skillBand \in Bands)
    /\ [](fetchPc # "none" => \E b \in Bands : fetchBody.band = BNum(b))
    /\ [][(screen = "report" /\ screen' = "quiz" /\ skillBand' # skillBand) =>
            /\ skillBand < 5
            /\ skillBand' = skillBand + 1
            /\ StartsFetch
            /\ fetchBody'.band = BNum(skillBand + 1)]_vars

\* the report of band 5, reached from the report of band 4 by next band:
\* a further next band is not on offer
C22_Witness ==
    /\ screen = "report"
    /\ skillBand = 5
    /\ Len(sessionReports) = 2
    /\ ~CanGoToNextBand

\* ---------------------------------------------------------------------
\* C23, C24, C25: the sanitizer on whole texts
\* ---------------------------------------------------------------------

\* the elements of the array in the text, when the text holds one
ItemsOf(text) ==
    LET parsed == JsonParse(ArraySpan(text))
    IN  IF parsed.k = "array" THEN parsed.v ELSE <<>>

\* the text is a JSON array and nothing else
CleanArray(text) == Head(text).tk = "[" /\ text = BareArray(ItemsOf(text))

\* the item is an object whose question and answer are non-blank strings
QuestionAndAnswerGiven(raw) ==
    /\ raw.k = "object"
    /\ raw.question.k = "string" /\ Trim(raw.question.s) # <<>>
    /\ raw.answer.k = "string" /\ Trim(raw.answer.s) # <<>>

\* a clean array of at most count items that all have question and answer
RoundTripInput ==
    /\ CleanArray(sanText)
    /\ Len(ItemsOf(sanText)) <= sanCount
    /\ \A i \in 1..Len(ItemsOf(sanText)) : QuestionAndAnswerGiven(ItemsOf(sanText)[i])

\* C23: a clean array of at most count items that all have a non-blank
\* string question and answer is returned with as many questions as it has
\* items
C23_RoundTripKeepsEveryItem ==
    (sanPc # "input" /\ RoundTripInput) =>
        /\ sanResult.status = "ok"
        /\ Len(sanResult.questions) = Len(ItemsOf(sanText))

\* the item is given options to choose from: it is tagged fill-in-the-blanks,
\* or it has a non-empty options list and is not tagged type-answer
ChoiceWanted(raw) ==
    \/ raw.type = "fill-in-the-blanks"
    \/ raw.type # "type-answer" /\ raw.options.k = "array" /\ Len(raw.options.v) > 0

\* one of its options, trimmed, is a text other than the trimmed answer
OtherOptionGiven(raw) ==
    /\ raw.options.k = "array"
    /\ \E i \in 1..Len(raw.options.v) :
         LET o == Trim(StringOf(raw.options.v[i]))
         IN  o # <<>> /\ o # Trim(raw.answer.s)

\* C23, amended: the same holds of a non-empty clean array in which every
\* item that is given options has one that differs from its answer
C23_Amended ==
    (/\ sanPc # "input"
     /\ RoundTripInput
     /\ ItemsOf(sanText) # <<>>
     /\ \A i \in 1..Len(ItemsOf(sanText)) :
           ChoiceWanted(ItemsOf(sanText)[i]) => OtherOptionGiven(ItemsOf(sanText)[i]))
    => /\ sanResult.status = "ok"
       /\ Len(sanResult.questions) = Len(ItemsOf(sanText))

\* both items of a clean array of two were returned, a typed one and one
\* with options
C23_Witness ==
    /\ sanPc = "returned"
    /\ RoundTripInput
    /\ Len(ItemsOf(sanText)) = 2
    /\ Len(sanResult.questions) = 2
    /\ sanResult.questions[1].type # sanResult.questions[2].type

\* the fields of a question other than its options
NonOptionFields(q) ==
    <<q.question, q.answer, q.direction, q.type, q.questionLanguage, q.explanation>>

OptionSet(q) == {q.options[i] : i \in 1..Len(q.options)}

\* two returned lists agree in everything but the order of the options
SameButOptionOrder(l1, l2) ==
    /\ Len(l1) = Len(l2)
    /\ \A i \in 1..Len(l1) :
         /\ NonOptionFields(l1[i]) = NonOptionFields(l2[i])
         /\ l1[i].hasOptions = l2[i].hasOptions
         /\ OptionSet(l1[i]) = OptionSet(l2[i])

\* C24: whatever a run of parseQuestionsFromText has returned, every other
\* run on the same text and count returns the same questions with the same
\* set of options each
C24_RunsAgreeButOptionOrder ==
    sanPc = "returned" =>
        \A r \in parseQuestionsFromText(sanText, sanCount) :
            /\ r.status = "ok"
            /\ SameButOptionOrder(r.questions, sanResult.questions)

\* commentary, ```json, an array, ```, commentary
IsFenced(text) ==
    /\ Len(text) >= 10
    /\ text = Fenced(SubSeq(text, 5, Len(text) - 4))
    /\ CleanArray(SubSeq(text, 5, Len(text) - 4))

Unfenced(text) == SubSeq(text, 5, Len(text) - 4)

\* C25: a text that wraps an array in a ```json fence with commentary before
\* and after it is sanitized to what the bare array is sanitized to
C25_FencedAsBare ==
    (sanPc # "input" /\ IsFenced(sanText)) =>
        sanResult \in parseQuestionsFromText(Unfenced(sanText), sanCount)

\* both items of a fenced array of two were returned
C25_Witness ==
    /\ sanPc = "returned"
    /\ IsFenced(sanText)
    /\ Len(ItemsOf(Unfenced(sanText))) = 2
    /\ Len(sanResult.questions) = 2

\* ---------------------------------------------------------------------
\* C26, C27, C29: one item with every type tag and options list
\* ---------------------------------------------------------------------

\* the text is a clean array of one item that has question and answer
OneItemInput ==
    /\ Len(sanText) = 3
    /\ sanText[1].tk = "["
    /\ sanText[2].tk = "value"
    /\ sanText[3].tk = "]"
    /\ 1 <= sanCount
    /\ QuestionAndAnswerGiven(sanText[2].item)

\* the item of such a text, the value between its brackets
TheItem == sanText[2].item

\* the options of the item, as texts
GivenOptions(raw) ==
    IF raw.options.k = "array"
    THEN [i \in 1..Len(raw.options.v) |-> Trim(StringOf(raw.options.v[i]))]
    ELSE <<>>

\* the options list has 3 options, all different, none blank, none the answer
ThreeOptionsWithoutAnswer(raw) ==
    /\ Len(GivenOptions(raw)) = 3
    /\ Cardinality({GivenOptions(raw)[i] : i \in 1..3}) = 3
    /\ \A i \in 1..3 : GivenOptions(raw)[i] \notin {<<>>, Trim(raw.answer.s)}

FourOptionsAnswerOnce(q) ==
    /\ q.hasOptions
    /\ Len(q.options) = 4
    /\ Occurrences(q.options, q.answer) = 1

\* C26: an item with 3 options none of which is the answer is returned with
\* 4 options that hold the answer exactly once
C26_AnswerAppendedToThree ==
    (sanPc # "input" /\ OneItemInput /\ ThreeOptionsWithoutAnswer(TheItem)) =>
        /\ sanResult.status = "ok"
        /\ FourOptionsAnswerOnce(sanResult.questions[1])

\* C26, amended: the same holds of an item that is not tagged type-answer
C26_Amended ==
    (/\ sanPc # "input"
     /\ OneItemInput
     /\ ThreeOptionsWithoutAnswer(TheItem)
     /\ TheItem.type # "type-answer") =>
        /\ sanResult.status = "ok"
        /\ FourOptionsAnswerOnce(sanResult.questions[1])
        /\ \A i \in 1..3 : Includes(sanResult.questions[1].options, GivenOptions(TheItem)[i])

\* a fill-in-the-blanks item with 3 options was returned with 4, the
\* answer among them
C26_Witness ==
    /\ sanPc = "returned"
    /\ OneItemInput
    /\ ThreeOptionsWithoutAnswer(TheItem)
    /\ TheItem.type = "fill-in-the-blanks"
    /\ FourOptionsAnswerOnce(sanResult.questions[1])

\* the item has options: [] and no type
EmptyOptionsNoType(raw) ==
    /\ raw.options.k = "array"
    /\ raw.options.v = <<>>
    /\ raw.type = ""

TypedWithoutOptions(q) == q.type = "type-answer" /\ ~q.hasOptions /\ q.options = <<>>

\* C27: an item with an empty options list and no type is returned as a
\* type-answer question without options, and stays one in the client
C27_EmptyOptionsIsTypeAnswer ==
    (sanPc # "input" /\ OneItemInput /\ EmptyOptionsNoType(TheItem)) =>
        /\ sanResult.status = "ok"
        /\ Len(sanResult.questions) = 1
        /\ TypedWithoutOptions(sanResult.questions[1])
        /\ sanPc = "stored" => Len(sanClient) = 1 /\ TypedWithoutOptions(sanClient[1])

\* such an item has gone through the sanitizer and the client's pass
C27_Witness ==
    /\ sanPc = "stored"
    /\ OneItemInput
    /\ EmptyOptionsNoType(TheItem)
    /\ TypedWithoutOptions(sanClient[1])

\* the rule as stated: the fill-in-the-blanks tag first, then a non-empty
\* options list or the multiple-choice tag, then type-answer
TypeOptionsBeforeTag(raw) ==
    IF raw.type = "fill-in-the-blanks" THEN "fill-in-the-blanks"
    ELSE IF (raw.options.k = "array" /\ Len(raw.options.v) > 0)
            \/ raw.type = "multiple-choice"
    THEN "multiple-choice"
    ELSE "type-answer"

\* the rule of the code: the fill-in-the-blanks tag first, then the
\* type-answer tag or a missing or empty options list, then multiple-choice
TypeTagBeforeOptions(raw) ==
    IF raw.type = "fill-in-the-blanks" THEN "fill-in-the-blanks"
    ELSE IF raw.type = "type-answer"
            \/ ~(raw.options.k = "array" /\ Len(raw.options.v) > 0)
    THEN "type-answer"
    ELSE "multiple-choice"

\* C29: the type of a returned question is fill-in-the-blanks for that tag,
\* otherwise multiple-choice for a non-empty options list or that tag,
\* otherwise type-answer, for every tag and options list
C29_TypeRule ==
    (sanPc \in {"returned", "stored"} /\ OneItemInput) =>
        /\ sanResult.questions[1].type = TypeOptionsBeforeTag(TheItem)
        /\ sanPc = "stored" => sanClient[1].type = TypeOptionsBeforeTag(TheItem)

\* C29, amended: the type is fill-in-the-blanks for that tag, otherwise
\* type-answer for that tag or for a missing or empty options list,
\* otherwise multiple-choice
C29_Amended ==
    (sanPc \in {"returned", "stored"} /\ OneItemInput) =>
        /\ sanResult.questions[1].type = TypeTagBeforeOptions(TheItem)
        /\ sanPc = "stored" => sanClient[1].type = TypeTagBeforeOptions(TheItem)

\* an item tagged type-answer that has options was returned as type-answer
C29_Witness ==
    /\ sanPc = "stored"
    /\ OneItemInput
    /\ TheItem.type = "type-answer"
    /\ Len(GivenOptions(TheItem)) = 3
    /\ sanClient[1].type = "type-answer"

\* ---------------------------------------------------------------------
\* C30: items that are skipped
\* ---------------------------------------------------------------------

\* the item can become a question: it has question and answer and, when it
\* is given options, one that differs from the answer
Usable(raw) ==
    /\ QuestionAndAnswerGiven(raw)
    /\ ChoiceWanted(raw) => OtherOptionGiven(raw)

\* the question is the one made of the item
MadeOf(q, raw) ==
    /\ q.question = Trim(raw.question.s)
    /\ q.answer = Trim(raw.answer.s)
    /\ q.hasOptions = ChoiceWanted(raw)

\* C30: the sanitizer returns the first count usable items of the array, in
\* their order, whatever unusable items stand between them, and it fails
\* exactly when the array has no usable item
C30_FirstCountUsableItems ==
    (sanPc # "input" /\ JsonParse(ArraySpan(sanText)).k = "array") =>
        LET usable == SelectSeq(ItemsOf(sanText), Usable)
            expected == SliceTo(usable, sanCount)
        IN  /\ (sanResult.status = "error") = (usable = <<>>)
            /\ sanResult.status = "error" => sanResult.error = MsgNoValid
            /\ sanResult.status = "ok" =>
                  /\ Len(sanResult.questions) = Len(expected)
                  /\ \A i \in 1..Len(expected) :
                        MadeOf(sanResult.questions[i], expected[i])

\* ---------------------------------------------------------------------
\* C28: who writes the session history
\* ---------------------------------------------------------------------

\* resetSession is the only step that enters the welcome screen
ResetSessionStep == screen' = "welcome" /\ screen # "welcome"

\* C28: the session history changes in three steps only: finishing a band,
\* which adds one report or puts it in the place of one, and change language
\* and the full reset, which empty it; it is the same before and after every
\* other step
C28_HistoryWrittenByThreeSteps ==
    [][sessionReports' # sessionReports =>
          \/ /\ Finishing
             /\ currentQuestionIndex = Len(questions) - 1
             /\ Len(sessionReports') \in {Len(sessionReports), Len(sessionReports) + 1}
             /\ LET report == sessionReports'[Len(sessionReports')]
                IN  /\ report.band = skillBand
                    /\ report.level = selectedLevel
                    /\ report.language = selectedLanguage
                    /\ \A i \in 1..(Len(sessionReports') - 1) :
                          Includes(sessionReports, sessionReports'[i])
                    /\ \A i \in 1..Len(sessionReports) :
                          ~SameTriple(sessionReports[i], report) =>
                              Includes(sessionReports', sessionReports[i])
          \/ ResetLanguageFlowStep /\ sessionReports' = <<>>
          \/ ResetSessionStep /\ sessionReports' = <<>>]_vars

\* two bands were finished and a band was then started again and its fetch
\* timed out: the starts, the timeout and the steps in the quiz have left
\* both reports in place
C28_Witness ==
    /\ QuizView = "error"
    /\ fetchError = MsgAborted
    /\ Len(sessionReports) = 2

\* ---------------------------------------------------------------------
\* C31: the fields of a returned question
\* ---------------------------------------------------------------------

Directions == {"en-to-target", "target-to-en", "target-to-target"}
QuestionTypes == {"multiple-choice", "type-answer", "fill-in-the-blanks"}

NonBlankTrimmed(text) == text # <<>> /\ Trim(text) = text

\* interface Question, but for the options
SchemaHolds(q) ==
    /\ NonBlankTrimmed(q.question)
    /\ NonBlankTrimmed(q.answer)
    /\ q.direction \in Directions
    /\ q.questionLanguage \in {"target", "en"}
    /\ q.type \in QuestionTypes
    /\ Trim(q.explanation) # <<>>

\* the fields of q are those the raw item gives rise to
FieldsFollow(q, raw) ==
    /\ q.question = Trim(raw.question.s)
    /\ q.answer = Trim(raw.answer.s)
    /\ q.direction = (IF raw.direction \in Directions THEN raw.direction
                      ELSE "en-to-target")
    /\ q.questionLanguage = (IF raw.questionLanguage = "target" THEN "target" ELSE "en")
    /\ q.explanation =
          (IF raw.explanation.k = "string" /\ Trim(raw.explanation.s) # <<>>
           THEN Trim(raw.explanation.s)
           ELSE IF q.type = "fill-in-the-blanks" THEN DefaultExplanationFill
           ELSE DefaultExplanation)

\* C31: every returned question has a non-blank trimmed question and
\* answer, one of the three directions, target or en as question language,
\* one of the three types and a non-blank explanation; direction, question
\* language and explanation follow from the raw item as stated
C31_ReturnedQuestionsKeepSchema ==
    /\ sanPc \in {"returned", "stored"} =>
          \A i \in 1..Len(sanResult.questions) : SchemaHolds(sanResult.questions[i])
    /\ (sanPc \in {"returned", "stored"} /\ OneItemInput) =>
          FieldsFollow(sanResult.questions[1], TheItem)

\* a fill-in-the-blanks item with an unknown direction, an unknown question
\* language and a blank explanation was returned with the defaults
C31_Witness ==
    /\ sanPc = "returned"
    /\ OneItemInput
    /\ TheItem.direction = "sideways"
    /\ TheItem.questionLanguage = "fr"
    /\ TheItem.explanation = JStr(<<" ">>)
    /\ sanResult.questions[1].type = "fill-in-the-blanks"
    /\ sanResult.questions[1].explanation = DefaultExplanationFill

\* ---------------------------------------------------------------------
\* C32, C33, C34: scores and records
\* ---------------------------------------------------------------------

\* the number of AnswerRecords of the band in progress that are marked correct
CorrectRecords == Cardinality({i \in 1..Len(answers) : answers[i].present /\ answers[i].correct})

\* C32: while a question of a band is shown, score is the number of the
\* band's AnswerRecords marked correct, and is no more than the number of
\* questions
C32_ScoreCountsCorrectRecords ==
    QuizView = "question" =>
        /\ score = CorrectRecords
        /\ score <= Len(questions)

\* C33: every report of the session history holds one AnswerRecord for each
\* question of its band
C33_ReportsAreComplete ==
    \A i \in 1..Len(sessionReports) :
        Len(sessionReports[i].answers) = sessionReports[i].total

\* C33, amended: every report holds AnswerRecords only, at most one for each
\* question of its band, and a band can be finished with questions left
\* unanswered: the report then holds the records of the answered ones
C33_Amended ==
    /\ \A i \in 1..Len(sessionReports) :
          /\ Len(sessionReports[i].answers) <= sessionReports[i].total
          /\ \A j \in 1..Len(sessionReports[i].answers) :
                sessionReports[i].answers[j].present
    /\ [][Finishing =>
            LET report == sessionReports'[Len(sessionReports')]
            IN  /\ report.total = Len(questions)
                /\ Len(report.answers) =
                      Cardinality({j \in 1..Len(answers) : answers[j].present})]_vars

\* a band of 2 questions was finished with its second question answered and
\* its first one not
C33_Witness ==
    /\ screen = "report"
    /\ Len(answers) = 2
    /\ ~answers[1].present
    /\ answers[2].present
    /\ \E i \in 1..Len(sessionReports) :
         /\ sessionReports[i].total = 2
         /\ Len(sessionReports[i].answers) = 1

RECURSIVE SumOfScores(_)
SumOfScores(reports) ==
    IF reports = <<>> THEN 0 ELSE Head(reports).score + SumOfScores(Tail(reports))

RECURSIVE SumOfTotals(_)
SumOfTotals(reports) ==
    IF reports = <<>> THEN 0 ELSE Head(reports).total + SumOfTotals(Tail(reports))

\* C34: on the report screen, where the document can be exported, its
\* aggregate figures are the sums of the figures of its bands
C34_AggregateIsSumOfBands ==
    screen = "report" =>
        /\ totalCorrect = SumOfScores(sessionReports)
        /\ totalQuestions = SumOfTotals(sessionReports)

\* ---------------------------------------------------------------------
\* C35: one language per session history
\* ---------------------------------------------------------------------

\* C35: every report of the session history has the selected language, and
\* the selected language stays as it is while the history is not empty
C35_HistoryOfOneLanguage ==
    /\ [](\A i \in 1..Len(sessionReports) :
             /\ selectedLanguage # NULL
             /\ sessionReports[i].language = selectedLanguage)
    /\ [][(sessionReports # <<>> /\ sessionReports' # <<>>) =>
            selectedLanguage' = selectedLanguage]_vars

\* the reports of two bands of German stand in the history
C35_Witness ==
    /\ Len(sessionReports) = 2
    /\ sessionReports[1].language = "German"
    /\ sessionReports[2].language = "German"
    /\ selectedLanguage = "German"

----------------------------------------------------------------------------
\* C36: whenever the report can be exported, every BandReport of the session
\* history has the level the document prints in its header, the selected
\* level.
C36_ReportsOfHeaderLevel ==
    screen = "report" =>
        \A i \in 1..Len(sessionReports) : sessionReports[i].level = selectedLevel

----------------------------------------------------------------------------
\* C37: one invocation of generateWithGroq makes at most 3 provider HTTP
\* calls whatever mix of 429/503 answers and JSON failures it meets, it has
\* ended once the third call is answered, and its calls are sequential: a
\* call is made only after every earlier call has been answered.
CallsInFlight == IF srvPc = "http" THEN 1 ELSE 0

C37_AtMostThreeSequentialCalls ==
    /\ httpCalls <= 3
    /\ httpCalls = Len(srvLog) + CallsInFlight
    /\ Len(srvLog) = 3 => srvPc = "done"

C37_Witness ==
    /\ Len(srvLog) = 3
    /\ TransientAt(1)
    /\ JsonFailureAt(2)
    /\ srvPc = "done"

----------------------------------------------------------------------------
\* C38: on the band, quiz and report screens a language and a level are
\* both selected; no sequence of user actions reaches these screens without
\* them.
C38_LanguageAndLevelSelected ==
    screen \in {"band", "quiz", "report"} =>
        /\ selectedLanguage # NULL
        /\ selectedLevel # NULL

\* the band screen, reached again through Change level from a report
C38_Witness ==
    /\ screen = "band"
    /\ sessionReports # <<>>
    /\ selectedLanguage # NULL
    /\ selectedLevel # NULL

----------------------------------------------------------------------------
\* C39: on the chat tutor page, once the session is reset (Reset session, or
\* a change of language or level) the chat, the two score counters, the
\* question number and the current question keep their initial values until
\* Ask tutor is next invoked, also when a tutor request was in flight at the
\* reset and is answered after it.
C39_ResetHoldsUntilNextAsk ==
    afterReset =>
        /\ home.chat = <<>>
        /\ home.scoreCorrect = 0
        /\ home.scoreTotal = 0
        /\ home.questionNumber = 0
        /\ home.currentQuestion = NoQuestion


====
